---- MODULE Spec2Model ----
(***************************************************************************)
(* Clinic Appointment Optimizer: the prediction service                    *)
(* (backend/api/services/prediction_service.py), the simulation service    *)
(* (backend/api/services/simulation_service.py) and the session views      *)
(* (backend/api/views.py).                                                 *)
(*                                                                         *)
(* Real-valued quantities (probabilities, minutes, percentages) are exact  *)
(* rationals <<n, d>> in lowest terms with d > 0; the sums of attendance   *)
(* probabilities, whose rounding depends on it, are computed in binary64.  *)
(***************************************************************************)
EXTENDS Integers, Naturals, Sequences, FiniteSets, TLC

VARIABLES
    rc_args,            \* _recommend_overbooking: the arguments of the call
    rc_ret,             \* _recommend_overbooking: Idle before the call, then Return(value)
    model,              \* PredictionService.model: None or Some(classifier)
    scaler,             \* PredictionService.scaler: None, Some("unfitted") or Some("fitted")
    feature_columns,    \* PredictionService.feature_columns: None or Some(list of column names)
    _model_loaded,      \* PredictionService._model_loaded
    model_path,         \* PredictionService.model_path: the artifact file name
    pd_in,              \* predict: the batch passed in (patient_data), [rows, has_label]
    pd_ret,             \* predict: Idle before the call, then Return(rows) or Raise(exception)
    pd_env,             \* predict: what was on disk when the call loaded the artifacts, None when it did not load
    sim_args,           \* _simulate_clinic: [doctors, attending, avg_time, clinic_minutes]
    sim,                \* _simulate_clinic: the simulation's state (clock, queue, doctors, totals)
    sim_ret,            \* _simulate_clinic: Idle, then Return([avg_wait, utilization, overflow]) or Raise
    random_draws,       \* the module-level generator of random: the number of values drawn from it so far
    co_params,          \* run_simulation_for_cohort: params, a mapping from the keys present
    co_data,            \* run_simulation_for_cohort: patient_data (absent, scored or unscored)
    co_pc,              \* run_simulation_for_cohort: "start", "simulate" (line 288) or "done"
    co_local,           \* run_simulation_for_cohort: the locals at line 288
    co_ret,             \* run_simulation_for_cohort: Idle, then Return(result) or Raise
    ru_params,          \* run_simulation: params, a mapping from the keys present
    ru_pc,              \* run_simulation: "start", "actual", "predicted" or "done"
    ru_local,           \* run_simulation: the locals at line 182
    ru_ret,             \* run_simulation: Idle, then Return(result) or Raise
    fb_a,               \* _preprocess_patient_data: a batch, [rows, has_label]
    fb_b,               \* _preprocess_patient_data: a second batch
    fb_ret,             \* _preprocess_patient_data: Idle, then Return of the two feature tables
    al_df,              \* _align_features: the table passed in
    al_ret,             \* _align_features: Idle before the call, then Return(table)
    session,            \* views.py: request.session['patient_data'], None when the key is not there
    vw_resp,            \* views.py: Idle, then the last response [view, status, body]
    fn_args,            \* a call of one of the pure functions of simulation_service.py: its arguments
    fn_ret,             \* that call: Idle, then Return(value) or Raise(exception)
    _prediction_service,    \* prediction_service.py: the module-level singleton, None or Some(instance)
    heap,               \* the PredictionService objects constructed so far, an instance being its position
    th,                 \* the request threads in get_predictions: [pc, svc, ret, calls] of each
    joblib_loads,       \* the number of joblib.load calls that returned a classifier
    scaler_fits         \* the number of StandardScaler.fit calls that returned

sim_vars == <<sim_args, sim, sim_ret, random_draws>>
co_vars == <<co_params, co_data, co_pc, co_local, co_ret>>
ru_vars == <<ru_params, ru_pc, ru_local, ru_ret>>
fb_vars == <<fb_a, fb_b, fb_ret>>
vw_vars == <<session, vw_resp>>
fn_vars == <<fn_args, fn_ret>>
hd_vars == <<_prediction_service, heap, th, joblib_loads, scaler_fits>>
svc_vars == <<model, scaler, feature_columns, _model_loaded, model_path>>
vars == <<rc_args, rc_ret, model, scaler, feature_columns, _model_loaded, model_path,
          pd_in, pd_ret, pd_env, sim_args, sim, sim_ret, random_draws,
          co_params, co_data, co_pc, co_local, co_ret,
          ru_params, ru_pc, ru_local, ru_ret, fb_a, fb_b, fb_ret, al_df, al_ret, session, vw_resp, fn_args, fn_ret,
          _prediction_service, heap, th, joblib_loads, scaler_fits>>

----------------------------------------------------------------------------
(* The outcome of a call: not made yet, a value returned, or an exception raised *)

Idle == [kind |-> "idle"]
Return(v) == [kind |-> "return", val |-> v]
Raise(e) == [kind |-> "raise", exc |-> e]

\* Python's None and a present value
None == <<>>
Some(v) == <<v>>

----------------------------------------------------------------------------
(* Exact rational arithmetic standing in for Python floats *)

Abs(x) == IF x < 0 THEN -x ELSE x

RECURSIVE Gcd(_, _)
Gcd(a, b) == IF b = 0 THEN a ELSE Gcd(b, a % b)

\* the rational n/d (d # 0) in lowest terms with a positive denominator
Rat(n, d) ==
    LET g == Gcd(Abs(n), Abs(d))
        s == IF d < 0 THEN -1 ELSE 1
    IN  <<(s * n) \div g, (s * d) \div g>>

R(n) == <<n, 1>>
RAdd(a, b) == Rat(a[1] * b[2] + b[1] * a[2], a[2] * b[2])
RSub(a, b) == Rat(a[1] * b[2] - b[1] * a[2], a[2] * b[2])
RMul(a, b) == Rat(a[1] * b[1], a[2] * b[2])
RDiv(a, b) == Rat(a[1] * b[2], a[2] * b[1])
RLt(a, b) == a[1] * b[2] < b[1] * a[2]
RLe(a, b) == a[1] * b[2] <= b[1] * a[2]
RGt(a, b) == RLt(b, a)
RGe(a, b) == RLe(b, a)
RMin(a, b) == IF RLt(b, a) THEN b ELSE a
RMax(a, b) == IF RGt(b, a) THEN b ELSE a

\* Python int(x) of a float: truncation toward zero
PyInt(a) == IF a[1] >= 0 THEN a[1] \div a[2] ELSE -((-a[1]) \div a[2])

\* Python round(x) with no digits: to the nearest integer, ties to the even one
PyRound(a) ==
    LET fl == a[1] \div a[2]
        twice == 2 * (a[1] - fl * a[2])
    IN  IF twice < a[2] THEN fl
        ELSE IF twice > a[2] THEN fl + 1
        ELSE IF fl % 2 = 0 THEN fl ELSE fl + 1

IMax(a, b) == IF a >= b THEN a ELSE b
IMin(a, b) == IF a <= b THEN a ELSE b

----------------------------------------------------------------------------
(* Tables (pandas DataFrame): the column names in order, the index label of
   each row in row order, and each row as a function from column name to value *)

Range(s) == {s[i] : i \in 1..Len(s)}
DataFrame(columns, index, data) == [columns |-> columns, index |-> index, data |-> data]
EmptyFrame == DataFrame(<<>>, <<>>, <<>>)

\* sequences without repetition over a set, of length at most n
RECURSIVE OrderedSubsets(_, _)
OrderedSubsets(S, n) ==
    IF n = 0 \/ S = {} THEN {<<>>}
    ELSE {<<>>} \cup UNION {{<<x>> \o t : t \in OrderedSubsets(S \ {x}, n - 1)} : x \in S}

----------------------------------------------------------------------------
(* The part of the state an operation does not use stays at these values *)

RecoIdle == rc_args = <<>> /\ rc_ret = Idle
AlignIdle == al_df = EmptyFrame /\ al_ret = Idle
\* the simulation before env.run: the clock at 0, nobody queued or in service
NotStarted ==
    [running |-> FALSE, now |-> R(0), arrival |-> <<>>, waiting |-> <<>>, in_service |-> {},
     wait_times |-> <<>>, busy_time |-> R(0)]
SimIdle == sim_args = <<>> /\ sim = NotStarted /\ sim_ret = Idle /\ random_draws = 0
NoLocals == [scheduled |-> 0, preds |-> <<>>, expected_attending |-> 0]
NoData == [kind |-> "none", probs |-> <<>>, batch |-> [rows |-> <<>>, has_label |-> FALSE]]
CohortIdle ==
    /\ co_params = <<>> /\ co_data = NoData /\ co_pc = "start"
    /\ co_local = NoLocals /\ co_ret = Idle
NoRunLocals ==
    [scheduled |-> 0, show_rate |-> R(0), actual_attending |-> 0,
     stats |-> [expected_predicted_attending |-> 0, avg_p |-> R(0), med_p |-> R(0),
                high |-> 0, med |-> 0, low |-> 0],
     actual_sim |-> [avg_wait |-> R(0), utilization |-> R(0), overflow |-> 0]]
RunIdle == ru_params = <<>> /\ ru_pc = "start" /\ ru_local = NoRunLocals /\ ru_ret = Idle
EmptyBatch == [rows |-> <<>>, has_label |-> FALSE]
FeaturesIdle == fb_a = EmptyBatch /\ fb_b = EmptyBatch /\ fb_ret = Idle
ViewsIdle == session = None /\ vw_resp = Idle
FormulasIdle == fn_args = <<>> /\ fn_ret = Idle
Threads == {1, 2}
\* a thread that serves no request
NoRequest == [pc |-> "idle", svc |-> None, ret |-> Idle, calls |-> 0]
\* a process that has served no request: _prediction_service = None (line 225)
HandlersIdle ==
    /\ _prediction_service = None /\ heap = <<>> /\ th = [t \in Threads |-> NoRequest]
    /\ joblib_loads = 0 /\ scaler_fits = 0
PredictIdle == pd_in = [rows |-> <<>>, has_label |-> FALSE] /\ pd_ret = Idle /\ pd_env = None
\* PredictionService.__init__
ServiceInit ==
    /\ model = None /\ scaler = None /\ feature_columns = None
    /\ _model_loaded = FALSE /\ model_path = "gradient_boosting_model.pkl"

----------------------------------------------------------------------------
(* simulation_service.py: _recommend_overbooking *)

\* rule 2 applied before rule 1: overflow wins over the saturation short-circuit
_recommend_overbooking_overflow_first(utilization, overflow_rate, current, avg_appt_time) ==
    IF RGt(overflow_rate, R(0)) THEN IMax(0, PyInt(RSub(current, R(5))))
    ELSE IF RGt(utilization, R(90)) /\ RGe(avg_appt_time, R(45)) THEN 0
    ELSE IF RLt(utilization, R(70)) THEN IMin(30, PyInt(RAdd(current, R(5))))
    ELSE IF RGt(utilization, R(90)) THEN IMax(0, PyInt(RSub(current, R(5))))
    ELSE PyInt(current)

\* the raise of the third rule without its limit of 30
_recommend_overbooking_unclamped(utilization, overflow_rate, current, avg_appt_time) ==
    IF RGt(utilization, R(90)) /\ RGe(avg_appt_time, R(45)) THEN 0
    ELSE IF RGt(overflow_rate, R(0)) THEN IMax(0, PyInt(RSub(current, R(5))))
    ELSE IF RLt(utilization, R(70)) THEN PyInt(RAdd(current, R(5)))
    ELSE IF RGt(utilization, R(90)) THEN IMax(0, PyInt(RSub(current, R(5))))
    ELSE PyInt(current)

_recommend_overbooking(utilization, overflow_rate, current, avg_appt_time) ==
    IF RGt(utilization, R(90)) /\ RGe(avg_appt_time, R(45)) THEN 0
    ELSE IF RGt(overflow_rate, R(0)) THEN IMax(0, PyInt(RSub(current, R(5))))
    ELSE IF RLt(utilization, R(70)) THEN IMin(30, PyInt(RAdd(current, R(5))))
    ELSE IF RGt(utilization, R(90)) THEN IMax(0, PyInt(RSub(current, R(5))))
    ELSE PyInt(current)

\* inputs of the recommender: values on both sides of every threshold of the rules
RecoUtilizations == {R(0), R(50), Rat(699, 10), R(70), Rat(701, 10), R(90), Rat(901, 10), R(95), R(100)}
RecoOverflowRates == {R(0), Rat(1, 20), R(1)}
RecoCurrents == {Rat(-15, 2), Rat(-5, 2), R(0), Rat(5, 2), R(5), R(10), Rat(35, 2), R(25), Rat(51, 2), R(30), R(40)}
RecoAvgTimes == {R(20), Rat(449, 10), R(45), R(50)}

InitReco ==
    /\ rc_args \in RecoUtilizations \X RecoOverflowRates \X RecoCurrents \X RecoAvgTimes
    /\ rc_ret = Idle
    /\ FeaturesIdle /\ AlignIdle /\ PredictIdle /\ ServiceInit /\ SimIdle /\ CohortIdle /\ RunIdle /\ ViewsIdle /\ FormulasIdle /\ HandlersIdle

RecoCall ==
    /\ rc_ret = Idle
    /\ rc_args # <<>>
    /\ rc_ret' = Return(_recommend_overbooking(rc_args[1], rc_args[2], rc_args[3], rc_args[4]))
    /\ UNCHANGED <<fb_vars, rc_args, svc_vars, pd_in, pd_ret, pd_env, sim_vars, co_vars, ru_vars, al_df, al_ret, vw_vars, fn_vars, hd_vars>>

NextReco == RecoCall

SpecReco == InitReco /\ [][NextReco]_vars

----------------------------------------------------------------------------
(* IEEE-754 binary64, for round((1.0 - bounded_probs).sum()) of lines 283-285
   and int(doctors * (clinic_minutes / avg_time)) of line 80:
   whether a sum of decimal fractions such as 0.9 and 0.4 falls on, above or
   below a half is decided by their binary representation and by the order
   of the additions, so this sum is computed as the program computes it.  A
   double x with 2^-7 <= x < 2^12, or x = 0, is the integer x * 2^60 written
   in three limbs of 24 bits, [hi, mid, lo]; it has at most 53 significant
   bits.  Every operation rounds to nearest, ties to even. *)

Limb == 16777216
FractionBits == 4096

RECURSIVE BitLen(_)
BitLen(x) == IF x = 0 THEN 0 ELSE 1 + BitLen(x \div 2)

\* the limbs brought back below Limb
Carry(x) ==
    LET lo == x.lo % Limb
        m == x.mid + (x.lo \div Limb)
    IN  [hi |-> x.hi + (m \div Limb), mid |-> m % Limb, lo |-> lo]

\* x, followed by a nonzero tail when sticky, rounded to 53 significant bits
Round53(x, sticky) ==
    LET h == IF x.hi > 0 THEN 48 + BitLen(x.hi)
             ELSE IF x.mid > 0 THEN 24 + BitLen(x.mid) ELSE BitLen(x.lo)
        k == h - 53
        rem == x.lo % (2 ^ k)
        half == 2 ^ (k - 1)
        odd == (x.lo \div (2 ^ k)) % 2 = 1
        up == rem > half \/ (rem = half /\ (sticky \/ odd))
    IN  IF k <= 0 THEN x
        ELSE Carry([x EXCEPT !.lo = (x.lo - rem) + (IF up THEN 2 ^ k ELSE 0)])

\* the double nearest to the fraction q = <<n, d>>, 0 <= q, by long division
\* twelve bits at a time
Binary64(q) ==
    LET d == q[2]
        r0 == q[1] % d
        d1 == (r0 * FractionBits) \div d
        r1 == (r0 * FractionBits) % d
        d2 == (r1 * FractionBits) \div d
        r2 == (r1 * FractionBits) % d
        d3 == (r2 * FractionBits) \div d
        r3 == (r2 * FractionBits) % d
        d4 == (r3 * FractionBits) \div d
        r4 == (r3 * FractionBits) % d
        d5 == (r4 * FractionBits) \div d
        r5 == (r4 * FractionBits) % d
    IN  Round53([hi |-> (q[1] \div d) * FractionBits + d1,
                 mid |-> d2 * FractionBits + d3,
                 lo |-> d4 * FractionBits + d5], r5 # 0)

FZero == [hi |-> 0, mid |-> 0, lo |-> 0]
FOne == [hi |-> FractionBits, mid |-> 0, lo |-> 0]

\* a + b
FAdd(a, b) ==
    Round53(Carry([hi |-> a.hi + b.hi, mid |-> a.mid + b.mid, lo |-> a.lo + b.lo]), FALSE)

\* a - b, for a >= b
FSub(a, b) ==
    LET lo == a.lo - b.lo
        mid == a.mid - b.mid - (IF lo < 0 THEN 1 ELSE 0)
        hi == a.hi - b.hi - (IF mid < 0 THEN 1 ELSE 0)
    IN  Round53([hi |-> hi, mid |-> IF mid < 0 THEN mid + Limb ELSE mid,
                 lo |-> IF lo < 0 THEN lo + Limb ELSE lo], FALSE)

\* round(x) of a float: the nearest integer, a tie going to the even one
FRound(x) ==
    LET whole == x.hi \div FractionBits
        frac == x.hi % FractionBits
        tie == frac = FractionBits \div 2 /\ x.mid = 0 /\ x.lo = 0
    IN  IF tie THEN (IF whole % 2 = 0 THEN whole ELSE whole + 1)
        ELSE IF frac >= FractionBits \div 2 THEN whole + 1
        ELSE whole

\* numpy's pairwise summation of a[from..Len(a)], for fewer than 16 elements:
\* below 8 elements a loop from 0.0, else eight accumulators combined in
\* pairs and the remaining elements added one by one
RECURSIVE SumLoop(_, _, _, _)
SumLoop(a, from, to, res) ==
    IF from > to THEN res ELSE SumLoop(a, from + 1, to, FAdd(res, a[from]))

pairwise_sum(a, from) ==
    IF Len(a) - from + 1 < 8 THEN SumLoop(a, from, Len(a), FZero)
    ELSE SumLoop(a, from + 8, Len(a),
                 FAdd(FAdd(FAdd(a[from], a[from + 1]), FAdd(a[from + 2], a[from + 3])),
                      FAdd(FAdd(a[from + 4], a[from + 5]), FAdd(a[from + 6], a[from + 7]))))

\* Series.sum(): the first element plus the pairwise sum of the others
sum(a) == IF Len(a) = 0 THEN FZero ELSE FAdd(a[1], pairwise_sum(a, 2))

\* n * x for an integer 0 <= n < 128
FTimes(n, x) ==
    Round53(Carry([hi |-> n * x.hi, mid |-> n * x.mid, lo |-> n * x.lo]), FALSE)

\* int(x) of a float x >= 0
FTrunc(x) == x.hi \div FractionBits

----------------------------------------------------------------------------
(* simulation_service.py: _simulate_clinic

   The simpy run as a state machine.  env.process(patient()) starts every
   patient process at time 0 (the env.timeout(interval) of the loop is created
   but not yielded, so nothing waits for it); a process asks for a doctor on
   starting, the resource grants requests first come first served while a
   doctor is free, and env.run(until=clinic_minutes) handles the events
   scheduled strictly before clinic_minutes.  random.uniform(0.8 avg, 1.2 avg)
   is a choice among the multiples of avg_time in DrawFactors. *)

DrawFactors == {Rat(4, 5), R(1), Rat(6, 5)}

\* what the construction of the simulation raises ("" when nothing):
\* simpy.Resource refuses a capacity <= 0, env.timeout a negative delay,
\* env.run an `until` that is not after the current time
SimRaises(doctors, attending, clinic_minutes) ==
    IF doctors <= 0 THEN "ValueError"
    ELSE IF attending > 0 /\ RLt(clinic_minutes, R(0)) THEN "ValueError"
    ELSE IF RLe(clinic_minutes, R(0)) THEN "ValueError"
    ELSE ""

\* every patient process has started and asked for a doctor, in order of creation
SimStarted(attending) ==
    [running |-> TRUE, now |-> R(0),
     arrival |-> [k \in 1..IMax(attending, 0) |-> R(0)],
     waiting |-> [k \in 1..IMax(attending, 0) |-> k],
     in_service |-> {}, wait_times |-> <<>>, busy_time |-> R(0)]

\* a request granted while as many patients as there are doctors are in service
CanAdmit_overbooked(st, doctors) == st.waiting # <<>> /\ Cardinality(st.in_service) <= doctors

\* a request is granted: a patient is queued and a doctor is free
CanAdmit(st, doctors) == st.waiting # <<>> /\ Cardinality(st.in_service) < doctors

\* the patient that asked last gets the doctor
Admit_lifo(st, service_time) ==
    LET k == st.waiting[Len(st.waiting)]
    IN  [st EXCEPT !.waiting = SubSeq(@, 1, Len(@) - 1),
                   !.wait_times = Append(@, RSub(st.now, st.arrival[k])),
                   !.busy_time = RAdd(@, service_time),
                   !.in_service = @ \cup {[patient |-> k, until |-> RAdd(st.now, service_time)]}]

\* busy time counted up to the horizon only
Admit_truncated(st, service_time) ==
    LET k == Head(st.waiting)
    IN  [st EXCEPT !.waiting = Tail(@),
                   !.wait_times = Append(@, RSub(st.now, st.arrival[k])),
                   !.busy_time = RAdd(@, RMin(service_time, RSub(sim_args.clinic_minutes, st.now))),
                   !.in_service = @ \cup {[patient |-> k, until |-> RAdd(st.now, service_time)]}]

\* the patient at the head of the queue gets a doctor and draws its service time
Admit(st, service_time) ==
    LET k == Head(st.waiting)
    IN  [st EXCEPT !.waiting = Tail(@),
                   !.wait_times = Append(@, RSub(st.now, st.arrival[k])),
                   !.busy_time = RAdd(@, service_time),
                   !.in_service = @ \cup {[patient |-> k, until |-> RAdd(st.now, service_time)]}]

\* the service that ends next, the earlier patient first among those ending together
NextDone(st) ==
    CHOOSE u \in st.in_service :
        \A v \in st.in_service :
            RLt(u.until, v.until) \/ (u.until = v.until /\ u.patient <= v.patient)

\* a service ending at the horizon itself is still processed
CanFinish_at_horizon(st, doctors, clinic_minutes) ==
    /\ ~CanAdmit(st, doctors)
    /\ st.in_service # {}
    /\ RLe(NextDone(st).until, clinic_minutes)

\* a service ends before the horizon
CanFinish(st, doctors, clinic_minutes) ==
    /\ ~CanAdmit(st, doctors)
    /\ st.in_service # {}
    /\ RLt(NextDone(st).until, clinic_minutes)

Finish(st) ==
    LET u == NextDone(st)
    IN  [st EXCEPT !.now = u.until, !.in_service = @ \ {u}]

RECURSIVE SumSeq(_, _)
SumSeq(xs, n) == IF n = 0 THEN R(0) ELSE RAdd(SumSeq(xs, n - 1), xs[n])

\* line 80: int(doctors * (clinic_minutes / avg_time)), the division and the product
\* each rounded to a double, the truncation towards zero; avg_time is not 0
capacity_patients(doctors, avg_time, clinic_minutes) ==
    LET q == RDiv(clinic_minutes, avg_time)
        product == FTimes(Abs(doctors), Binary64(<<Abs(q[1]), q[2]>>))
    IN  IF (q[1] < 0) # (doctors < 0) THEN -FTrunc(product) ELSE FTrunc(product)

\* line 81: max(0, attending - capacity_patients)
Overflow(doctors, attending, avg_time, clinic_minutes) ==
    IMax(0, attending - capacity_patients(doctors, avg_time, clinic_minutes))

\* lines 71-83: the statistics of the run
SimStatistics(st, doctors, attending, avg_time, clinic_minutes) ==
    LET avg_wait == IF st.wait_times # <<>>
                    THEN RDiv(SumSeq(st.wait_times, Len(st.wait_times)), R(Len(st.wait_times)))
                    ELSE R(0)
        total_doctor_time == RMul(R(doctors), clinic_minutes)
        utilization == IF RGt(total_doctor_time, R(0))
                       THEN RMin(R(100), RMul(RDiv(st.busy_time, total_doctor_time), R(100)))
                       ELSE R(0)
    IN  IF avg_time = R(0) THEN Raise("ZeroDivisionError")
        ELSE LET overflow == Overflow(doctors, attending, avg_time, clinic_minutes)
             IN  Return([avg_wait |-> avg_wait, utilization |-> utilization, overflow |-> overflow])

\* the arguments the simulator is tried on
MaxAttending == 4
SimDoctors == {0, 1, 2}
SimAvgTimes == {R(-20), R(0), R(20), R(45)}
SimMinutes == {R(-60), R(0), R(30), R(60)}

InitSim ==
    /\ FeaturesIdle /\ RecoIdle /\ AlignIdle /\ PredictIdle /\ ServiceInit /\ CohortIdle /\ RunIdle /\ ViewsIdle /\ FormulasIdle /\ HandlersIdle
    /\ sim_args \in [doctors : SimDoctors, attending : 0..MaxAttending,
                     avg_time : SimAvgTimes, clinic_minutes : SimMinutes]
    /\ sim = NotStarted
    /\ random_draws = 0
    /\ sim_ret = Idle

\* lines 48-69, up to the first event of env.run
SimCall ==
    /\ sim_ret = Idle /\ ~sim.running /\ sim_args # <<>>
    /\ \E exc \in {SimRaises(sim_args.doctors, sim_args.attending, sim_args.clinic_minutes)} :
          IF exc # ""
          THEN sim_ret' = Raise(exc) /\ sim' = sim
          ELSE sim_ret' = Idle /\ sim' = SimStarted(sim_args.attending)
    /\ UNCHANGED <<fb_vars, rc_args, rc_ret, svc_vars, pd_in, pd_ret, pd_env, sim_args, random_draws, co_vars, ru_vars, al_df, al_ret, vw_vars, fn_vars, hd_vars>>

\* lines 57-61: the patient at the head of the queue is given a doctor
SimAdmit ==
    /\ sim_ret = Idle /\ sim.running
    /\ CanAdmit(sim, sim_args.doctors)
    /\ \E f \in DrawFactors :
          \E service_time \in {RMul(f, sim_args.avg_time)} :
              IF RLt(service_time, R(0))
              THEN sim_ret' = Raise("ValueError") /\ sim' = sim
              ELSE sim_ret' = Idle /\ sim' = Admit(sim, service_time)
    /\ random_draws' = random_draws + 1
    /\ UNCHANGED <<fb_vars, rc_args, rc_ret, svc_vars, pd_in, pd_ret, pd_env, sim_args, co_vars, ru_vars, al_df, al_ret, vw_vars, fn_vars, hd_vars>>

\* line 61 resumes: a service ends and its doctor is released
SimFinish ==
    /\ sim_ret = Idle /\ sim.running
    /\ CanFinish(sim, sim_args.doctors, sim_args.clinic_minutes)
    /\ sim' = Finish(sim)
    /\ UNCHANGED <<fb_vars, rc_args, rc_ret, svc_vars, pd_in, pd_ret, pd_env, sim_args, sim_ret, random_draws, co_vars, ru_vars, al_df, al_ret, vw_vars, fn_vars, hd_vars>>

\* lines 71-83: the horizon is reached or no event is left
SimReturn ==
    /\ sim_ret = Idle /\ sim.running
    /\ ~CanAdmit(sim, sim_args.doctors)
    /\ ~CanFinish(sim, sim_args.doctors, sim_args.clinic_minutes)
    /\ sim_ret' = SimStatistics(sim, sim_args.doctors, sim_args.attending,
                                sim_args.avg_time, sim_args.clinic_minutes)
    /\ UNCHANGED <<fb_vars, rc_args, rc_ret, svc_vars, pd_in, pd_ret, pd_env, sim_args, sim, random_draws, co_vars, ru_vars, al_df, al_ret, vw_vars, fn_vars, hd_vars>>

NextSim == SimCall \/ SimAdmit \/ SimFinish \/ SimReturn

SpecSim == InitSim /\ [][NextSim]_vars

\* lines 80-83 on their own: the overflow a run returns is a function of the
\* arguments, here tried on positive arguments with larger clinics
OverflowArgs ==
    [doctors : {1, 2, 11}, attending : {0, 1, 3, 14, 15, 16},
     avg_time : {R(20), R(22), R(45)}, clinic_minutes : {R(30), R(60)}]

InitOverflow ==
    /\ FeaturesIdle /\ RecoIdle /\ AlignIdle /\ PredictIdle /\ ServiceInit /\ SimIdle /\ CohortIdle /\ RunIdle /\ ViewsIdle /\ HandlersIdle
    /\ fn_args \in OverflowArgs
    /\ fn_ret = Idle

OverflowCall ==
    /\ fn_ret = Idle
    /\ fn_ret' = Return(Overflow(fn_args.doctors, fn_args.attending,
                                 fn_args.avg_time, fn_args.clinic_minutes))
    /\ UNCHANGED <<fb_vars, rc_args, rc_ret, svc_vars, pd_in, pd_ret, pd_env, sim_vars, co_vars, ru_vars, al_df, al_ret, vw_vars, fn_args, hd_vars>>

NextOverflow == OverflowCall

SpecOverflow == InitOverflow /\ [][NextOverflow]_vars

----------------------------------------------------------------------------
(* C5: _recommend_overbooking is the five-rule first-match procedure of the
   design: (1) utilization > 90 and avg minutes >= 45 gives 0; else (2)
   overflow rate > 0 gives max(0, trunc(current - 5)); else (3) utilization
   < 70 gives min(30, trunc(current + 5)); else (4) utilization > 90 gives
   max(0, trunc(current - 5)); else (5) trunc(current).  The rules are stated
   here as guarded cases whose guards exclude the earlier rules, and the two
   worked examples are checked as well. *)
C5_Rule(u, o, c, a) ==
    CASE RGt(u, R(90)) /\ RGe(a, R(45)) -> 1
      [] ~(RGt(u, R(90)) /\ RGe(a, R(45))) /\ RGt(o, R(0)) -> 2
      [] ~(RGt(u, R(90)) /\ RGe(a, R(45))) /\ ~RGt(o, R(0)) /\ RLt(u, R(70)) -> 3
      [] ~RGe(a, R(45)) /\ ~RGt(o, R(0)) /\ RGt(u, R(90)) -> 4
      [] OTHER -> 5

C5_Expected(u, o, c, a) ==
    LET rule == C5_Rule(u, o, c, a)
        down == PyInt(RSub(c, R(5)))
        up == PyInt(RAdd(c, R(5)))
    IN  CASE rule = 1 -> 0
          [] rule = 2 -> IF down < 0 THEN 0 ELSE down
          [] rule = 3 -> IF up > 30 THEN 30 ELSE up
          [] rule = 4 -> IF down < 0 THEN 0 ELSE down
          [] OTHER -> PyInt(c)

C5_RecommendIsFiveRuleProcedure ==
    rc_ret.kind = "return" =>
        /\ rc_ret.val = C5_Expected(rc_args[1], rc_args[2], rc_args[3], rc_args[4])
        /\ (rc_args[1] = R(95) /\ rc_args[4] = R(50) => rc_ret.val = 0)
        /\ (rc_args[1] = R(50) /\ rc_args[2] = R(0) /\ rc_args[3] = R(10)
                /\ RLt(rc_args[4], R(45)) => rc_ret.val = 15)

\* rule 1 short-circuits a call that also has overflow and a positive current percent
C5_Witness ==
    /\ rc_ret = Return(0)
    /\ rc_args[1] = R(95) /\ rc_args[4] = R(50)
    /\ rc_args[2] = R(1) /\ rc_args[3] = R(30)

----------------------------------------------------------------------------
(* prediction_service.py: PredictionService._preprocess_patient_data

   An appointment record carries AppointmentID, PatientId, ScheduledDay (a
   timestamp, in hours), AppointmentDay (a date, in hours, a multiple of 24),
   Age, Gender, Neighbourhood and the outcome label NoShow; a batch
   (patient_data) is [rows, has_label], has_label telling whether the batch
   has a No-show column.  The index label of row i is i - 1.  The calendar
   month and the clinical flag columns, which pass through unchanged, are left
   out of the feature table. *)

HoursPerDay == 24

\* (later - earlier).dt.days
Days(later, earlier) == (later - earlier) \div HoursPerDay

\* the categories of the two encoded columns in sorted order, and their indicator columns
GenderCats == <<"F", "M">>
NeighbourhoodCats == <<"A", "B", "C">>
DummyColumn ==
    [F |-> "Gender_F", M |-> "Gender_M",
     A |-> "Neighbourhood_A", B |-> "Neighbourhood_B", C |-> "Neighbourhood_C"]

\* the order of sort_values(by=['PatientId', 'ScheduledDay'])
KeyLe(a, b) ==
    \/ a.rec.PatientId < b.rec.PatientId
    \/ a.rec.PatientId = b.rec.PatientId /\ a.rec.ScheduledDay <= b.rec.ScheduledDay

\* the first n rows in (PatientId, ScheduledDay) order, ties in their original order
RECURSIVE sort_values(_, _)
sort_values(rows, n) ==
    IF n = 0 THEN <<>>
    ELSE LET s == sort_values(rows, n - 1)
             r == rows[n]
             k == Cardinality({i \in 1..Len(s) : KeyLe(s[i], r)})
         IN  SubSeq(s, 1, k) \o <<r>> \o SubSeq(s, k + 1, Len(s))

\* pd.get_dummies(..., drop_first=True) of one column: the categories present, less the first
Dummies(cats, present) ==
    LET found == SelectSeq(cats, LAMBDA c : c \in present)
    IN  IF found = <<>> THEN <<>> ELSE Tail(found)

BaseColumns ==
    <<"Age", "Days_Wait", "Appointment_DayOfWeek", "Scheduled_Hour", "Past_NoShow_Rate",
      "Total_Appointments", "Missed_Before", "Days_Since_Last_Appt", "Appointment_Frequency">>

\* df['No-show'].map({'Yes': 1, 'No': 0}), or df['No-show'] = 0 when the batch has no label
NoShow(df, has_label, i) == IF has_label /\ df[i].rec.NoShow = "Yes" THEN 1 ELSE 0

\* groupby('PatientId'): the positions of the rows of row i's patient, and those before row i
Group(df, i) == {j \in 1..Len(df) : df[j].rec.PatientId = df[i].rec.PatientId}
Prior(df, i) == {j \in Group(df, i) : j < i}

\* the rate with the row's own outcome in it: expanding().mean() without shift()
Past_NoShow_Rate_unshifted(df, has_label, i) ==
    Rat(Cardinality({j \in Prior(df, i) \cup {i} : NoShow(df, has_label, j) = 1}),
        Cardinality(Prior(df, i)) + 1)

\* the rate over all the appointments of the patient, for a row that is not the first
Past_NoShow_Rate_whole_group(df, has_label, i) ==
    IF Prior(df, i) = {} THEN R(0)
    ELSE Rat(Cardinality({j \in Group(df, i) : NoShow(df, has_label, j) = 1}),
             Cardinality(Group(df, i)))

\* x.shift().expanding().mean() within the patient's group, fillna(0)
Past_NoShow_Rate(df, has_label, i) ==
    IF Prior(df, i) = {} THEN R(0)
    ELSE Rat(Cardinality({j \in Prior(df, i) : NoShow(df, has_label, j) = 1}),
             Cardinality(Prior(df, i)))

\* groupby('PatientId')['AppointmentID'].transform('count')
Total_Appointments(df, i) == R(Cardinality(Group(df, i)))

\* 1 for every row that has an earlier appointment, whatever its outcome
Missed_Before_any_history(df, has_label, i) ==
    IF Prior(df, i) # {} THEN R(1) ELSE R(0)

\* (df['Past_NoShow_Rate'] > 0).astype(int)
Missed_Before(df, has_label, i) ==
    IF RGt(Past_NoShow_Rate(df, has_label, i), R(0)) THEN R(1) ELSE R(0)

\* (AppointmentDay - groupby('PatientId')['AppointmentDay'].shift()).dt.days.fillna(0)
Days_Since_Last_Appt(df, i) ==
    IF Prior(df, i) = {} THEN R(0)
    ELSE LET prev == CHOOSE j \in Prior(df, i) : \A k \in Prior(df, i) : k <= j
         IN  R(Days(df[i].rec.AppointmentDay, df[prev].rec.AppointmentDay))

Appointment_Frequency(df, i) ==
    LET days == {df[j].rec.AppointmentDay : j \in Group(df, i)}
        patient_min == CHOOSE d \in days : \A e \in days : d <= e
        patient_max == CHOOSE d \in days : \A e \in days : d >= e
        Patient_Active_Days == Days(patient_max, patient_min) + 1
    IN  Rat(Cardinality(Group(df, i)), IF Patient_Active_Days = 0 THEN 1 ELSE Patient_Active_Days)

_preprocess_patient_data(patient_data) ==
    LET n == Len(patient_data.rows)
        indexed == [i \in 1..n |-> [idx |-> i - 1, rec |-> patient_data.rows[i]]]
        \* df = df[df['Age'] >= 0]
        filtered == SelectSeq(indexed, LAMBDA r : r.rec.Age >= 0)
        \* df = df.sort_values(by=['PatientId', 'ScheduledDay'])
        df == sort_values(filtered, Len(filtered))
        m == Len(df)
        has_label == patient_data.has_label
        genders == Dummies(GenderCats, {df[i].rec.Gender : i \in 1..m})
        hoods == Dummies(NeighbourhoodCats, {df[i].rec.Neighbourhood : i \in 1..m})
        columns == BaseColumns \o [k \in 1..Len(genders) |-> DummyColumn[genders[k]]]
                               \o [k \in 1..Len(hoods) |-> DummyColumn[hoods[k]]]
        Value(i, c) ==
            CASE c = "Age" -> R(df[i].rec.Age)
              [] c = "Days_Wait" -> R(Days(df[i].rec.AppointmentDay, df[i].rec.ScheduledDay))
              [] c = "Appointment_DayOfWeek" -> R((df[i].rec.AppointmentDay \div HoursPerDay) % 7)
              [] c = "Scheduled_Hour" -> R(df[i].rec.ScheduledDay % HoursPerDay)
              [] c = "Past_NoShow_Rate" -> Past_NoShow_Rate(df, has_label, i)
              [] c = "Total_Appointments" -> Total_Appointments(df, i)
              [] c = "Missed_Before" -> Missed_Before(df, has_label, i)
              [] c = "Days_Since_Last_Appt" -> Days_Since_Last_Appt(df, i)
              [] c = "Appointment_Frequency" -> Appointment_Frequency(df, i)
              [] c \in {DummyColumn[g] : g \in Range(GenderCats)} ->
                    IF DummyColumn[df[i].rec.Gender] = c THEN R(1) ELSE R(0)
              [] OTHER ->
                    IF DummyColumn[df[i].rec.Neighbourhood] = c THEN R(1) ELSE R(0)
    IN  DataFrame(columns, [i \in 1..m |-> df[i].idx],
            [i \in 1..m |-> [c \in Range(columns) |-> Value(i, c)]])

----------------------------------------------------------------------------
(* model/src/data_preprocessing.py: load_and_clean_data, up to the split of
   line 69.  rows are the records of the training file, which has the No-show
   column; the table keeps that column, after Age, until line 66. *)

\* the pipeline without the sort_values of line 22
load_and_clean_data_unsorted(rows) ==
    LET indexed == [i \in 1..Len(rows) |-> [idx |-> i - 1, rec |-> rows[i]]]
        df == SelectSeq(indexed, LAMBDA r : r.rec.Age >= 0)
        m == Len(df)
        genders == Dummies(GenderCats, {df[i].rec.Gender : i \in 1..m})
        hoods == Dummies(NeighbourhoodCats, {df[i].rec.Neighbourhood : i \in 1..m})
        columns == BaseColumns \o [k \in 1..Len(genders) |-> DummyColumn[genders[k]]]
                               \o [k \in 1..Len(hoods) |-> DummyColumn[hoods[k]]]
        Value(i, c) ==
            CASE c = "Age" -> R(df[i].rec.Age)
              [] c = "Days_Wait" -> R(Days(df[i].rec.AppointmentDay, df[i].rec.ScheduledDay))
              [] c = "Appointment_DayOfWeek" -> R((df[i].rec.AppointmentDay \div HoursPerDay) % 7)
              [] c = "Scheduled_Hour" -> R(df[i].rec.ScheduledDay % HoursPerDay)
              [] c = "Past_NoShow_Rate" -> Past_NoShow_Rate(df, TRUE, i)
              [] c = "Total_Appointments" -> Total_Appointments(df, i)
              [] c = "Missed_Before" -> Missed_Before(df, TRUE, i)
              [] c = "Days_Since_Last_Appt" -> Days_Since_Last_Appt(df, i)
              [] c = "Appointment_Frequency" -> Appointment_Frequency(df, i)
              [] c \in {DummyColumn[g] : g \in Range(GenderCats)} ->
                    IF DummyColumn[df[i].rec.Gender] = c THEN R(1) ELSE R(0)
              [] OTHER ->
                    IF DummyColumn[df[i].rec.Neighbourhood] = c THEN R(1) ELSE R(0)
    IN  DataFrame(columns, [i \in 1..m |-> df[i].idx],
            [i \in 1..m |-> [c \in Range(columns) |-> Value(i, c)]])

\* X, the feature table that train_test_split receives
load_and_clean_data(rows) ==
    LET indexed == [i \in 1..Len(rows) |-> [idx |-> i - 1, rec |-> rows[i]]]
        \* df = df[df['Age'] >= 0]
        filtered == SelectSeq(indexed, LAMBDA r : r.rec.Age >= 0)
        \* df = df.sort_values(by=['PatientId', 'ScheduledDay'])
        df == sort_values(filtered, Len(filtered))
        m == Len(df)
        genders == Dummies(GenderCats, {df[i].rec.Gender : i \in 1..m})
        hoods == Dummies(NeighbourhoodCats, {df[i].rec.Neighbourhood : i \in 1..m})
        encoded == <<"Age", "No-show">> \o Tail(BaseColumns)
                       \o [k \in 1..Len(genders) |-> DummyColumn[genders[k]]]
                       \o [k \in 1..Len(hoods) |-> DummyColumn[hoods[k]]]
        \* df['No-show'].map({'Yes': 1, 'No': 0}): any other label becomes NaN
        Label(i) == CASE df[i].rec.NoShow = "Yes" -> Some(R(1))
                      [] df[i].rec.NoShow = "No" -> Some(R(0))
                      [] OTHER -> None
        Value(i, c) ==
            CASE c = "Age" -> R(df[i].rec.Age)
              [] c = "No-show" -> Label(i)
              [] c = "Days_Wait" -> R(Days(df[i].rec.AppointmentDay, df[i].rec.ScheduledDay))
              [] c = "Appointment_DayOfWeek" -> R((df[i].rec.AppointmentDay \div HoursPerDay) % 7)
              [] c = "Scheduled_Hour" -> R(df[i].rec.ScheduledDay % HoursPerDay)
              [] c = "Past_NoShow_Rate" -> Past_NoShow_Rate(df, TRUE, i)
              [] c = "Total_Appointments" -> Total_Appointments(df, i)
              [] c = "Missed_Before" -> Missed_Before(df, TRUE, i)
              [] c = "Days_Since_Last_Appt" -> Days_Since_Last_Appt(df, i)
              [] c = "Appointment_Frequency" -> Appointment_Frequency(df, i)
              [] c \in {DummyColumn[g] : g \in Range(GenderCats)} ->
                    IF DummyColumn[df[i].rec.Gender] = c THEN R(1) ELSE R(0)
              [] OTHER ->
                    IF DummyColumn[df[i].rec.Neighbourhood] = c THEN R(1) ELSE R(0)
        \* df.dropna(subset=['No-show'])
        kept == SelectSeq([i \in 1..m |-> i], LAMBDA i : Label(i) # None)
        \* X = df.drop(columns=['No-show'])
        X_columns == SelectSeq(encoded, LAMBDA c : c # "No-show")
    IN  DataFrame(X_columns, [k \in 1..Len(kept) |-> df[kept[k]].idx],
            [k \in 1..Len(kept) |-> [c \in Range(X_columns) |-> Value(kept[k], c)]])

----------------------------------------------------------------------------
(* prediction_service.py: PredictionService._align_features *)

\* the missing training columns are injected, but the input's column order is kept
\* and its extra columns stay
_align_features_no_select(columns, df) ==
    IF columns = None THEN df
    ELSE LET missing == SelectSeq(columns[1], LAMBDA c : c \notin Range(df.columns))
         IN  DataFrame(df.columns \o missing, df.index,
                 [i \in 1..Len(df.data) |->
                     [c \in Range(df.columns) \cup Range(missing) |->
                         IF c \in Range(df.columns) THEN df.data[i][c] ELSE R(0)]])

\* `columns` is self.feature_columns
_align_features(columns, df) ==
    IF columns = None THEN df
    ELSE LET missing == SelectSeq(columns[1], LAMBDA c : c \notin Range(df.columns))
             \* for col in self.feature_columns: if col not in df.columns: df[col] = 0
             added == DataFrame(df.columns \o missing, df.index,
                 [i \in 1..Len(df.data) |->
                     [c \in Range(df.columns) \cup Range(missing) |->
                         IF c \in Range(df.columns) THEN df.data[i][c] ELSE R(0)]])
         \* df = df[self.feature_columns]
         IN  DataFrame(columns[1], added.index,
                 [i \in 1..Len(added.data) |-> [c \in Range(columns[1]) |-> added.data[i][c]]])

----------------------------------------------------------------------------
(* prediction_service.py: loading the artifacts

   env is what a call finds on disk: files, the model artifact files that
   exist; content, what joblib.load makes of the artifact ("ok", "mismatch": it
   raises with a scikit-learn version marker in its message, "incompatible":
   it raises without one); training, what becomes of the training data
   ("ok", "absent", "load_raises": load_and_clean_data raises, "fit_raises":
   StandardScaler.fit raises). *)

PrimaryPath == "gradient_boosting_model.pkl"
AltPath == "gradient_boosting.pkl"

Environments ==
    [files : SUBSET {PrimaryPath, AltPath},
     content : {"ok", "mismatch", "incompatible"},
     training : {"ok", "absent", "load_raises", "fit_raises"}]

\* X_train.columns of the training data: both genders and neighbourhoods A and B occur in it
TrainingColumns == BaseColumns \o <<"Gender_M", "Neighbourhood_B">>

\* _load_model reporting a missing artifact with the error kind of a damaged one
_load_model_one_kind(self_model_path, self_model, env) ==
    LET found == self_model_path \in env.files \/ AltPath \in env.files
        path == IF self_model_path \in env.files THEN self_model_path
                ELSE IF AltPath \in env.files THEN AltPath
                ELSE self_model_path
    IN  IF ~found \/ env.content # "ok"
        THEN [model_path |-> path, model |-> self_model, exc |-> "RuntimeError: Error loading model"]
        ELSE [model_path |-> path, model |-> Some("classifier"), exc |-> ""]

\* returns the new model_path, the new model and the exception raised ("" when none)
_load_model(self_model_path, self_model, env) ==
    LET found == self_model_path \in env.files \/ AltPath \in env.files
        path == IF self_model_path \in env.files THEN self_model_path
                ELSE IF AltPath \in env.files THEN AltPath
                ELSE self_model_path
    IN  IF ~found THEN [model_path |-> path, model |-> self_model, exc |-> "FileNotFoundError"]
        ELSE IF env.content = "mismatch"
        THEN [model_path |-> path, model |-> self_model, exc |-> "RuntimeError: Model version mismatch"]
        ELSE IF env.content = "incompatible"
        THEN [model_path |-> path, model |-> self_model, exc |-> "RuntimeError: Error loading model"]
        ELSE [model_path |-> path, model |-> Some("classifier"), exc |-> ""]

\* returns the new scaler and feature_columns; every exception is caught and reported
_prepare_scaler(self_scaler, self_feature_columns, env) ==
    CASE env.training = "absent" -> [scaler |-> self_scaler, feature_columns |-> self_feature_columns]
      [] env.training = "load_raises" -> [scaler |-> self_scaler, feature_columns |-> self_feature_columns]
      [] env.training = "fit_raises" -> [scaler |-> Some("unfitted"), feature_columns |-> self_feature_columns]
      [] OTHER -> [scaler |-> Some("fitted"), feature_columns |-> Some(TrainingColumns)]

----------------------------------------------------------------------------
(* The fitted artifacts.  The standardizer is the per-column affine map
   (x - mean) / scale and the classifier a fixed function of the feature
   vector, sensitive to the position of every value; the fitted numbers
   themselves come from the training run and are placeholders here. *)

ScalerMean(j) == R(j % 3)
ScalerScale(j) == R(1 + (j % 2))

\* StandardScaler.transform: the rows as vectors in the table's column order, standardized
transform(X) ==
    [i \in 1..Len(X.data) |->
        [j \in 1..Len(X.columns) |->
            RDiv(RSub(X.data[i][X.columns[j]], ScalerMean(j)), ScalerScale(j))]]

\* DataFrame.values: the rows as vectors in the table's column order
values(X) == [i \in 1..Len(X.data) |-> [j \in 1..Len(X.columns) |-> X.data[i][X.columns[j]]]]

\* the probabilities the classifier gives, on both sides of every band threshold
ProbTable ==
    <<R(0), Rat(1, 10), Rat(2999, 10000), Rat(3, 10), Rat(1, 2),
      Rat(5999, 10000), Rat(6, 10), Rat(7, 10), R(1)>>

RECURSIVE Weigh(_, _)
Weigh(x, n) == IF n = 0 THEN 0 ELSE Weigh(x, n - 1) + n * x[n][1] + x[n][2]

\* model.predict_proba(...)[:, 1] for one row
predict_proba(x) == ProbTable[(Weigh(x, Len(x)) % Len(ProbTable)) + 1]

\* the number of features the classifier was fitted on
n_features_in_ == Len(TrainingColumns)

----------------------------------------------------------------------------
(* prediction_service.py: PredictionService.predict *)

\* the band thresholds compared strictly
RiskLevelStrict(p) ==
    IF RGt(p, Rat(6, 10)) THEN "High" ELSE IF RGt(p, Rat(3, 10)) THEN "Medium" ELSE "Low"

\* lambda p: 'High' if p >= 0.6 else ('Medium' if p >= 0.3 else 'Low')
RiskLevel(p) ==
    IF RGe(p, Rat(6, 10)) THEN "High" ELSE IF RGe(p, Rat(3, 10)) THEN "Medium" ELSE "Low"

\* patient_data.groupby('PatientId')['No-show'].transform(lambda x: (x == 'Yes').sum()), or 0
previousNoShows(patient_data, i) ==
    IF patient_data.has_label
    THEN Cardinality({j \in 1..Len(patient_data.rows) :
            /\ patient_data.rows[j].PatientId = patient_data.rows[i].PatientId
            /\ patient_data.rows[j].NoShow = "Yes"})
    ELSE 0

\* lines 191-222: the scoring of a batch by a service whose artifacts are loaded
Score(self_scaler, self_feature_columns, patient_data) ==
    LET processed_df == _preprocess_patient_data(patient_data)
        X == _align_features(self_feature_columns, processed_df)
        n == Len(patient_data.rows)
    IN  IF self_scaler = Some("unfitted") THEN Raise("NotFittedError")
        \* neither the standardizer nor the classifier takes a table of no rows
        ELSE IF Len(X.data) = 0 THEN Raise("ValueError")
        ELSE IF Len(X.columns) # n_features_in_ THEN Raise("ValueError")
        ELSE LET X_scaled == IF self_scaler # None THEN transform(X) ELSE values(X)
                 probabilities == [i \in 1..Len(X_scaled) |-> predict_proba(X_scaled[i])]
             \* result['noShowProbability'] = probabilities: by position, lengths must agree
             IN  IF Len(probabilities) # n THEN Raise("ValueError")
                 ELSE Return([i \in 1..n |->
                        [rec |-> patient_data.rows[i],
                         noShowProbability |-> probabilities[i],
                         riskLevel |-> RiskLevel(probabilities[i]),
                         previousNoShows |-> previousNoShows(patient_data, i)]])

\* the fields of the service after the call, and the outcome of the call
predict(self, patient_data, env) ==
    LET \* if not self._model_loaded: self._load_model(); self._prepare_scaler(); ...
        loading == ~self._model_loaded
        loaded == _load_model(self.model_path, self.model, env)
        prepared == _prepare_scaler(self.scaler, self.feature_columns, env)
        after == IF loading
                 THEN [model |-> loaded.model, scaler |-> prepared.scaler,
                       feature_columns |-> prepared.feature_columns, _model_loaded |-> TRUE,
                       model_path |-> loaded.model_path, ret |-> Idle]
                 ELSE self
    IN  IF loading /\ loaded.exc # ""
        THEN [self EXCEPT !.model_path = loaded.model_path, !.ret = Raise(loaded.exc)]
        ELSE [after EXCEPT !.ret = Score(after.scaler, after.feature_columns, patient_data)]

\* the service object as a record, for predict
Self ==
    [model |-> model, scaler |-> scaler, feature_columns |-> feature_columns,
     _model_loaded |-> _model_loaded, model_path |-> model_path, ret |-> Idle]

----------------------------------------------------------------------------
(* Requests to predict: a batch is put together from the appointment records
   of RowPool, at most MaxBatch of them, each at most once (an appointment
   identifier occurs once in a batch), in any order. *)

MaxBatch == 3

Appointment(aid, pid, sched, appt, age, gender, hood, noshow) ==
    [AppointmentID |-> aid, PatientId |-> pid, ScheduledDay |-> sched, AppointmentDay |-> appt,
     Age |-> age, Gender |-> gender, Neighbourhood |-> hood, NoShow |-> noshow]

RowPool ==
    { Appointment(101, 1, 10, 24, 30, "F", "A", "Yes"),
      Appointment(102, 1, 30, 48, 30, "F", "A", "No"),
      Appointment(103, 2, 5, 24, 52, "M", "B", "No"),
      Appointment(104, 2, 5, 96, 52, "M", "B", "Yes"),
      Appointment(105, 3, 20, 24, -1, "F", "C", "No"),
      Appointment(106, 1, 50, 48, 30, "F", "B", "Yes") }

InitPredict ==
    /\ FeaturesIdle /\ RecoIdle /\ AlignIdle /\ ServiceInit /\ SimIdle /\ CohortIdle /\ RunIdle /\ ViewsIdle /\ FormulasIdle /\ HandlersIdle
    /\ pd_in \in [rows : {<<>>}, has_label : BOOLEAN]
    /\ pd_ret = Idle
    /\ pd_env = None

\* the caller adds a record to the batch it will pass
AddRow ==
    /\ pd_ret = Idle
    /\ Len(pd_in.rows) < MaxBatch
    /\ \E r \in RowPool :
          /\ r \notin Range(pd_in.rows)
          /\ pd_in' = [pd_in EXCEPT !.rows = Append(@, r)]
    /\ UNCHANGED <<fb_vars, rc_args, rc_ret, svc_vars, pd_ret, pd_env, sim_vars, co_vars, ru_vars, al_df, al_ret, vw_vars, fn_vars, hd_vars>>

\* get_prediction_service().predict(patient_data) on a batch that is not empty;
\* what is on disk matters to the call that loads the artifacts only
Predict ==
    /\ pd_ret = Idle
    /\ Len(pd_in.rows) > 0
    /\ \E env \in IF _model_loaded THEN {CHOOSE e \in Environments : TRUE} ELSE Environments :
          \E after \in {predict(Self, pd_in, env)} :
              /\ model' = after.model
              /\ scaler' = after.scaler
              /\ feature_columns' = after.feature_columns
              /\ _model_loaded' = after._model_loaded
              /\ model_path' = after.model_path
              /\ pd_ret' = after.ret
              /\ pd_env' = IF _model_loaded THEN None ELSE Some(env)
    /\ UNCHANGED <<fb_vars, rc_args, rc_ret, pd_in, sim_vars, co_vars, ru_vars, al_df, al_ret, vw_vars, fn_vars, hd_vars>>

\* the call is over; the next request starts a new batch
NewRequest ==
    /\ pd_ret # Idle
    /\ pd_in' \in [rows : {<<>>}, has_label : BOOLEAN]
    /\ pd_ret' = Idle
    /\ pd_env' = None
    /\ UNCHANGED <<fb_vars, rc_args, rc_ret, svc_vars, sim_vars, co_vars, ru_vars, al_df, al_ret, vw_vars, fn_vars, hd_vars>>

NextPredict == AddRow \/ Predict \/ NewRequest

SpecPredict == InitPredict /\ [][NextPredict]_vars

----------------------------------------------------------------------------
(* views.py, get_predictions (lines 104-116) served by request threads, with
   get_prediction_service (lines 225-234) and predict (lines 185-204) taken
   statement by statement: a thread can be preempted between any two of them.
   A PredictionService object is its position in heap; a thread is at

     "idle"     no request yet            "done"     the response is sent
     "get"      line 230, the test        "create"   line 232
     "return"   line 233                  "check"    line 185
     "load"     line 186                  "scaler"   lines 66-72
     "fit"      line 73                   "columns"  line 74
     "flag"     line 188                  "score"    lines 191-222

   Every request carries HandlerBatch, which a fully loaded service scores. *)

MaxCalls == 2

HandlerBatch ==
    [rows |-> <<Appointment(101, 1, 10, 24, 30, "F", "A", "Yes"),
                Appointment(103, 2, 5, 24, 52, "M", "B", "No")>>,
     has_label |-> TRUE]

\* PredictionService.__init__
NewService ==
    [model |-> None, scaler |-> None, feature_columns |-> None,
     _model_loaded |-> FALSE, model_path |-> PrimaryPath]

\* every other thread is between two requests
Quiet(t) == \A u \in Threads \ {t} : th[u].pc \in {"idle", "done"}

\* a request with patient data arrives (views.py 86-102)
HdRequest(t) ==
    /\ th[t].pc \in {"idle", "done"}
    /\ th[t].calls < MaxCalls
    /\ th' = [th EXCEPT ![t] = [pc |-> "get", svc |-> None, ret |-> Idle, calls |-> @.calls + 1]]
    /\ UNCHANGED <<_prediction_service, heap, joblib_loads, scaler_fits>>
    /\ UNCHANGED <<rc_args, rc_ret, svc_vars, pd_in, pd_ret, pd_env, fb_vars, sim_vars, co_vars, ru_vars, al_df, al_ret, vw_vars, fn_vars>>

\* if _prediction_service is None:
HdGet(t) ==
    /\ th[t].pc = "get"
    /\ th' = [th EXCEPT ![t].pc = IF _prediction_service = None THEN "create" ELSE "return"]
    /\ UNCHANGED <<_prediction_service, heap, joblib_loads, scaler_fits>>
    /\ UNCHANGED <<rc_args, rc_ret, svc_vars, pd_in, pd_ret, pd_env, fb_vars, sim_vars, co_vars, ru_vars, al_df, al_ret, vw_vars, fn_vars>>

\* _prediction_service = PredictionService()
HdCreate(t) ==
    /\ th[t].pc = "create"
    /\ heap' = Append(heap, NewService)
    /\ _prediction_service' = Some(Len(heap) + 1)
    /\ th' = [th EXCEPT ![t].pc = "return"]
    /\ UNCHANGED <<joblib_loads, scaler_fits>>
    /\ UNCHANGED <<rc_args, rc_ret, svc_vars, pd_in, pd_ret, pd_env, fb_vars, sim_vars, co_vars, ru_vars, al_df, al_ret, vw_vars, fn_vars>>

\* return _prediction_service
HdReturn(t) ==
    /\ th[t].pc = "return"
    /\ th' = [th EXCEPT ![t].svc = _prediction_service, ![t].pc = "check"]
    /\ UNCHANGED <<_prediction_service, heap, joblib_loads, scaler_fits>>
    /\ UNCHANGED <<rc_args, rc_ret, svc_vars, pd_in, pd_ret, pd_env, fb_vars, sim_vars, co_vars, ru_vars, al_df, al_ret, vw_vars, fn_vars>>

\* predict loading the artifacts on every call
HdCheck_always_loads(t) ==
    /\ th[t].pc = "check"
    /\ th' = [th EXCEPT ![t].pc = "load"]
    /\ UNCHANGED <<_prediction_service, heap, joblib_loads, scaler_fits>>
    /\ UNCHANGED <<rc_args, rc_ret, svc_vars, pd_in, pd_ret, pd_env, fb_vars, sim_vars, co_vars, ru_vars, al_df, al_ret, vw_vars, fn_vars>>

\* if not self._model_loaded:
HdCheck(t) ==
    /\ th[t].pc = "check"
    /\ th' = [th EXCEPT ![t].pc = IF heap[th[t].svc[1]]._model_loaded THEN "score" ELSE "load"]
    /\ UNCHANGED <<_prediction_service, heap, joblib_loads, scaler_fits>>
    /\ UNCHANGED <<rc_args, rc_ret, svc_vars, pd_in, pd_ret, pd_env, fb_vars, sim_vars, co_vars, ru_vars, al_df, al_ret, vw_vars, fn_vars>>

\* self._load_model(); what it raises ends the request with status 500 (views.py 112-116)
HdLoadModel(t) ==
    /\ th[t].pc = "load"
    /\ \E env \in Environments :
          \E self \in {heap[th[t].svc[1]]} :
          \E loaded \in {_load_model(self.model_path, self.model, env)} :
              /\ heap' = [heap EXCEPT ![th[t].svc[1]].model_path = loaded.model_path,
                                      ![th[t].svc[1]].model = loaded.model]
              /\ joblib_loads' = IF loaded.exc = "" THEN joblib_loads + 1 ELSE joblib_loads
              /\ th' = IF loaded.exc = "" THEN [th EXCEPT ![t].pc = "scaler"]
                       ELSE [th EXCEPT ![t].pc = "done", ![t].ret = Raise(loaded.exc)]
    /\ UNCHANGED <<_prediction_service, scaler_fits>>
    /\ UNCHANGED <<rc_args, rc_ret, svc_vars, pd_in, pd_ret, pd_env, fb_vars, sim_vars, co_vars, ru_vars, al_df, al_ret, vw_vars, fn_vars>>

\* _prepare_scaler up to self.scaler = StandardScaler(); without the training data, or
\* when load_and_clean_data raises, it returns before that
HdNewScaler(t) ==
    /\ th[t].pc = "scaler"
    /\ \E env \in Environments :
          IF env.training \in {"absent", "load_raises"}
          THEN /\ th' = [th EXCEPT ![t].pc = "flag"]
               /\ heap' = heap
          ELSE /\ th' = [th EXCEPT ![t].pc = IF env.training = "ok" THEN "fit" ELSE "flag"]
               /\ heap' = [heap EXCEPT ![th[t].svc[1]].scaler = Some("unfitted")]
    /\ UNCHANGED <<_prediction_service, joblib_loads, scaler_fits>>
    /\ UNCHANGED <<rc_args, rc_ret, svc_vars, pd_in, pd_ret, pd_env, fb_vars, sim_vars, co_vars, ru_vars, al_df, al_ret, vw_vars, fn_vars>>

\* self.scaler.fit(X_train): the object that self.scaler holds now is fitted
HdFit(t) ==
    /\ th[t].pc = "fit"
    /\ heap' = [heap EXCEPT ![th[t].svc[1]].scaler = Some("fitted")]
    /\ scaler_fits' = scaler_fits + 1
    /\ th' = [th EXCEPT ![t].pc = "columns"]
    /\ UNCHANGED <<_prediction_service, joblib_loads>>
    /\ UNCHANGED <<rc_args, rc_ret, svc_vars, pd_in, pd_ret, pd_env, fb_vars, sim_vars, co_vars, ru_vars, al_df, al_ret, vw_vars, fn_vars>>

\* self.feature_columns = X_train.columns.tolist()
HdColumns(t) ==
    /\ th[t].pc = "columns"
    /\ heap' = [heap EXCEPT ![th[t].svc[1]].feature_columns = Some(TrainingColumns)]
    /\ th' = [th EXCEPT ![t].pc = "flag"]
    /\ UNCHANGED <<_prediction_service, joblib_loads, scaler_fits>>
    /\ UNCHANGED <<rc_args, rc_ret, svc_vars, pd_in, pd_ret, pd_env, fb_vars, sim_vars, co_vars, ru_vars, al_df, al_ret, vw_vars, fn_vars>>

\* self._model_loaded = True
HdFlag(t) ==
    /\ th[t].pc = "flag"
    /\ heap' = [heap EXCEPT ![th[t].svc[1]]._model_loaded = TRUE]
    /\ th' = [th EXCEPT ![t].pc = "score"]
    /\ UNCHANGED <<_prediction_service, joblib_loads, scaler_fits>>
    /\ UNCHANGED <<rc_args, rc_ret, svc_vars, pd_in, pd_ret, pd_env, fb_vars, sim_vars, co_vars, ru_vars, al_df, al_ret, vw_vars, fn_vars>>

\* the rest of predict, with the fields as they are now; self.model.predict_proba on None
\* raises AttributeError
HdScore(t) ==
    /\ th[t].pc = "score"
    /\ \E self \in {heap[th[t].svc[1]]} :
          th' = [th EXCEPT ![t].pc = "done",
                           ![t].ret = IF self.model = None THEN Raise("AttributeError")
                                      ELSE Score(self.scaler, self.feature_columns, HandlerBatch)]
    /\ UNCHANGED <<_prediction_service, heap, joblib_loads, scaler_fits>>
    /\ UNCHANGED <<rc_args, rc_ret, svc_vars, pd_in, pd_ret, pd_env, fb_vars, sim_vars, co_vars, ru_vars, al_df, al_ret, vw_vars, fn_vars>>

HdStep(t) ==
    \/ HdGet(t) \/ HdCreate(t) \/ HdReturn(t) \/ HdCheck(t) \/ HdLoadModel(t)
    \/ HdNewScaler(t) \/ HdFit(t) \/ HdColumns(t) \/ HdFlag(t) \/ HdScore(t)

InitHandlers ==
    /\ FeaturesIdle /\ RecoIdle /\ AlignIdle /\ PredictIdle /\ ServiceInit /\ SimIdle /\ CohortIdle /\ RunIdle /\ ViewsIdle /\ FormulasIdle
    /\ HandlersIdle

\* the requests are served one after the other: none starts while another is being served
HdRequestAlone(t) == Quiet(t) /\ HdRequest(t)

NextCalls == \E t \in Threads : HdRequestAlone(t) \/ HdStep(t)

SpecCalls == InitHandlers /\ [][NextCalls]_vars

\* a threaded server: the requests are served concurrently
NextHandlers == \E t \in Threads : HdRequest(t) \/ HdStep(t)

SpecHandlers == InitHandlers /\ [][NextHandlers]_vars

----------------------------------------------------------------------------
(* The feature builder on its own, on two batches: fb_a is put together from
   the appointment records of RowPool, and fb_b is fb_a with outcome labels
   changed and appointments added.  The training pipeline
   (data_preprocessing.py, lines 22-51) computes the behavioural features by
   the same statements on a batch that has its label column. *)

InsertAt(s, k, r) == SubSeq(s, 1, k) \o <<r>> \o SubSeq(s, k + 1, Len(s))

Relabel(r) == [r EXCEPT !.NoShow = IF @ = "Yes" THEN "No" ELSE "Yes"]

InitFeatures ==
    /\ RecoIdle /\ AlignIdle /\ PredictIdle /\ ServiceInit /\ SimIdle /\ CohortIdle /\ RunIdle /\ ViewsIdle /\ FormulasIdle /\ HandlersIdle
    /\ fb_a \in [rows : {<<>>}, has_label : BOOLEAN]
    /\ fb_b = fb_a
    /\ fb_ret = Idle

\* a record is added to the batch
FbAddRow ==
    /\ fb_ret = Idle /\ fb_b = fb_a
    /\ Len(fb_a.rows) < MaxBatch
    /\ \E r \in RowPool :
          /\ r \notin Range(fb_a.rows)
          /\ fb_a' = [fb_a EXCEPT !.rows = Append(@, r)]
          /\ fb_b' = fb_a'
    /\ fb_ret' = fb_ret
    /\ UNCHANGED <<rc_args, rc_ret, svc_vars, pd_in, pd_ret, pd_env, sim_vars, co_vars, ru_vars, al_df, al_ret, vw_vars, fn_vars, hd_vars>>

\* the second batch gets another outcome label on one of its records
FbRelabel ==
    /\ fb_ret = Idle /\ fb_b.has_label
    /\ \E i \in 1..Len(fb_b.rows) : fb_b' = [fb_b EXCEPT !.rows[i] = Relabel(@)]
    /\ UNCHANGED <<fb_a, fb_ret>>
    /\ UNCHANGED <<rc_args, rc_ret, svc_vars, pd_in, pd_ret, pd_env, sim_vars, co_vars, ru_vars, al_df, al_ret, vw_vars, fn_vars, hd_vars>>

\* the second batch gets one more appointment, at any place
FbInsert ==
    /\ fb_ret = Idle
    /\ Len(fb_b.rows) < MaxBatch
    /\ \E r \in RowPool \cup {Relabel(x) : x \in RowPool}, k \in 0..Len(fb_b.rows) :
          /\ \A i \in 1..Len(fb_b.rows) : fb_b.rows[i].AppointmentID # r.AppointmentID
          /\ fb_b' = [fb_b EXCEPT !.rows = InsertAt(@, k, r)]
    /\ UNCHANGED <<fb_a, fb_ret>>
    /\ UNCHANGED <<rc_args, rc_ret, svc_vars, pd_in, pd_ret, pd_env, sim_vars, co_vars, ru_vars, al_df, al_ret, vw_vars, fn_vars, hd_vars>>

\* _preprocess_patient_data on each of the two batches, and load_and_clean_data on
\* the first when it has the label column that the training pipeline reads
FbCall ==
    /\ fb_ret = Idle
    /\ fb_ret' = Return([a |-> _preprocess_patient_data(fb_a),
                         b |-> _preprocess_patient_data(fb_b),
                         X |-> IF fb_a.has_label THEN Some(load_and_clean_data(fb_a.rows)) ELSE None])
    /\ UNCHANGED <<fb_a, fb_b>>
    /\ UNCHANGED <<rc_args, rc_ret, svc_vars, pd_in, pd_ret, pd_env, sim_vars, co_vars, ru_vars, al_df, al_ret, vw_vars, fn_vars, hd_vars>>

NextFeatures == FbAddRow \/ FbRelabel \/ FbInsert \/ FbCall

SpecFeatures == InitFeatures /\ [][NextFeatures]_vars

\* the column names the aligner is tried on, and the number of rows of its input
AlignColumns == {"Age", "Days_Wait", "Gender_M", "Neighbourhood_B"}
MaxAlignRows == 2

\* a cell value that tells its row and its column apart, never 0
AlignCell(i, c) ==
    R(10 * i + (CASE c = "Age" -> 1 [] c = "Days_Wait" -> 2 [] c = "Gender_M" -> 3 [] OTHER -> 4))

\* the aligner reads only self.feature_columns: the other fields are those of a loaded service
InitAlign ==
    /\ FeaturesIdle /\ RecoIdle /\ PredictIdle /\ SimIdle /\ CohortIdle /\ RunIdle /\ ViewsIdle /\ FormulasIdle /\ HandlersIdle
    /\ model = Some("classifier") /\ _model_loaded = TRUE
    /\ model_path = "gradient_boosting_model.pkl"
    /\ feature_columns \in {None} \cup {Some(cs) : cs \in OrderedSubsets(AlignColumns, Cardinality(AlignColumns))}
    /\ scaler = IF feature_columns = None THEN None ELSE Some("fitted")
    /\ \E cs \in OrderedSubsets(AlignColumns, Cardinality(AlignColumns)), n \in 0..MaxAlignRows :
          al_df = DataFrame(cs, [i \in 1..n |-> i - 1],
                      [i \in 1..n |-> [c \in Range(cs) |-> AlignCell(i, c)]])
    /\ al_ret = Idle

AlignCall ==
    /\ al_ret = Idle
    /\ al_df # EmptyFrame
    /\ al_ret' = Return(_align_features(feature_columns, al_df))
    /\ UNCHANGED <<fb_vars, rc_args, rc_ret, svc_vars, pd_in, pd_ret, pd_env, sim_vars, co_vars, ru_vars, al_df, vw_vars, fn_vars, hd_vars>>

NextAlign == AlignCall

SpecAlign == InitAlign /\ [][NextAlign]_vars

----------------------------------------------------------------------------
(* C4: with a training schema loaded, _align_features returns a table whose
   columns are exactly the training columns in the training order, whatever
   the input's columns: a training column missing from the input is 0 on every
   row, an input column outside the schema is gone, the value of a column in
   both is the input's, and the rows are the input's rows in the same order. *)
C4_AlignedToTrainingSchema ==
    (al_ret.kind = "return" /\ feature_columns # None) =>
        LET out == al_ret.val
            schema == feature_columns[1]
        IN  /\ out.columns = schema
            /\ out.index = al_df.index
            /\ Len(out.data) = Len(al_df.data)
            /\ \A i \in 1..Len(out.data) :
                  /\ DOMAIN out.data[i] = Range(schema)
                  /\ \A c \in Range(schema) :
                        out.data[i][c] = IF c \in Range(al_df.columns)
                                         THEN al_df.data[i][c] ELSE R(0)

\* a call that injects a column, drops a column, and reorders the two it keeps
C4_Witness ==
    /\ al_ret.kind = "return"
    /\ feature_columns = Some(<<"Age", "Gender_M", "Days_Wait">>)
    /\ al_df.columns = <<"Neighbourhood_B", "Days_Wait", "Age">>
    /\ Len(al_df.data) = 2
    /\ al_ret.val.columns = <<"Age", "Gender_M", "Days_Wait">>
    /\ al_ret.val.data[2]["Gender_M"] = R(0)
    /\ al_ret.val.data[2]["Age"] = AlignCell(2, "Age")

----------------------------------------------------------------------------
(* C1: for every batch, in any row order, the probability and the risk band
   on the i-th row returned by predict are the classifier's output for the
   feature vector derived from the i-th record passed in (the row of the
   feature table that carries the index label of record i), and the i-th row
   returned is the i-th record. *)
C1_FeatureVectorOf(i) ==
    LET X == _align_features(feature_columns, _preprocess_patient_data(pd_in))
        k == CHOOSE k \in 1..Len(X.index) : X.index[k] = i - 1
    IN  IF scaler # None THEN transform(X)[k] ELSE values(X)[k]

C1_RowPairingPreserved ==
    pd_ret.kind = "return" =>
        /\ Len(pd_ret.val) = Len(pd_in.rows)
        /\ \A i \in 1..Len(pd_ret.val) :
              /\ pd_ret.val[i].rec = pd_in.rows[i]
              /\ pd_ret.val[i].noShowProbability = predict_proba(C1_FeatureVectorOf(i))
              /\ pd_ret.val[i].riskLevel = RiskLevel(predict_proba(C1_FeatureVectorOf(i)))

(* C2: a service whose model, standardizer and training schema are loaded
   returns from predict, with exactly one assessment per record passed in, for
   every batch, the batches holding records of negative age included. *)
C2_OneAssessmentPerRecord ==
    (pd_ret # Idle /\ _model_loaded /\ scaler = Some("fitted") /\ feature_columns # None) =>
        /\ pd_ret.kind = "return"
        /\ Len(pd_ret.val) = Len(pd_in.rows)

(* C3: the risk band of every scored row is decided by its probability p,
   which lies in [0, 1]: High iff p >= 0.6, Medium iff 0.3 <= p < 0.6, Low
   iff p < 0.3; so 0.3 is Medium, 0.6 is High, and a row has exactly one band. *)
C3_RiskBandIsThresholdRule ==
    pd_ret.kind = "return" =>
        \A i \in 1..Len(pd_ret.val) :
            LET p == pd_ret.val[i].noShowProbability
                band == pd_ret.val[i].riskLevel
            IN  /\ RGe(p, R(0)) /\ RLe(p, R(1))
                /\ band \in {"High", "Medium", "Low"}
                /\ band = "High" <=> RGe(p, Rat(6, 10))
                /\ band = "Medium" <=> (RGe(p, Rat(3, 10)) /\ RLt(p, Rat(6, 10)))
                /\ band = "Low" <=> RLt(p, Rat(3, 10))

\* one batch scored with a row at each of the two thresholds
C3_Witness ==
    /\ pd_ret.kind = "return"
    /\ \E i, j \in 1..Len(pd_ret.val) :
          /\ pd_ret.val[i].noShowProbability = Rat(3, 10) /\ pd_ret.val[i].riskLevel = "Medium"
          /\ pd_ret.val[j].noShowProbability = Rat(6, 10) /\ pd_ret.val[j].riskLevel = "High"

----------------------------------------------------------------------------
(* simulation_service.py: _patient_satisfaction and
   SimulationService.run_simulation_for_cohort

   The handler runs in three steps: CohortBegin is lines 241-287, up to the
   call of _simulate_clinic; the simulator then runs (SimCall, SimAdmit,
   SimFinish, SimReturn); CohortEnd is lines 292-312.  Nothing else can
   happen in between.  params is a mapping from the keys it holds; the
   numbers it holds are taken as already numeric, so int() and float() do not
   raise. *)

\* round(x, 1): to one decimal, a tie going to the even tenth
Round1(x) == Rat(PyRound(RMul(x, R(10))), 10)

\* the overflow penalty counted per patient turned away, not as a share of scheduled
_patient_satisfaction_per_patient(avg_wait, overflow, scheduled) ==
    LET wait_penalty == RMin(R(40), RMul(RDiv(avg_wait, R(30)), R(40)))
        overflow_penalty == IF scheduled > 0 THEN RMul(R(overflow), R(60)) ELSE R(0)
    IN  RSub(RSub(R(100), wait_penalty), overflow_penalty)

_patient_satisfaction(avg_wait, overflow, scheduled) ==
    LET wait_penalty == RMin(R(40), RMul(RDiv(avg_wait, R(30)), R(40)))
        overflow_penalty == IF scheduled > 0
                            THEN RMul(Rat(overflow, scheduled), R(60))
                            ELSE R(0)
    IN  RSub(RSub(R(100), wait_penalty), overflow_penalty)

\* _patient_satisfaction on its own, on waits up to and past 30 minutes and on
\* overflows below, at and above scheduled
SatisfactionArgs ==
    [avg_wait : {R(0), Rat(15, 2), R(30), R(45)}, overflow : 0..5, scheduled : 0..4]

InitSatisfaction ==
    /\ FeaturesIdle /\ RecoIdle /\ AlignIdle /\ PredictIdle /\ ServiceInit /\ SimIdle /\ CohortIdle /\ RunIdle /\ ViewsIdle /\ HandlersIdle
    /\ fn_args \in SatisfactionArgs
    /\ fn_ret = Idle

SatisfactionCall ==
    /\ fn_ret = Idle
    /\ fn_ret' = Return(_patient_satisfaction(fn_args.avg_wait, fn_args.overflow, fn_args.scheduled))
    /\ UNCHANGED <<fb_vars, rc_args, rc_ret, svc_vars, pd_in, pd_ret, pd_env, sim_vars, co_vars, ru_vars, al_df, al_ret, vw_vars, fn_args, hd_vars>>

NextSatisfaction == SatisfactionCall

SpecSatisfaction == InitSatisfaction /\ [][NextSatisfaction]_vars

required ==
    <<"date", "doctors", "slotsPerDay", "overbookingPercentage",
      "averageAppointmentTime", "clinicHours">>

\* lines 242-250
ZeroResult ==
    [totalPatients |-> 0, highRiskPatients |-> 0, averageWaitTime |-> R(0),
     doctorUtilization |-> R(0), patientSatisfaction |-> R(0), noShowRate |-> R(0),
     optimalOverbooking |-> 0]

\* len(patient_data), for a table that is there
DataLen(patient_data) ==
    IF patient_data.kind = "scored" THEN Len(patient_data.probs)
    ELSE Len(patient_data.batch.rows)

\* the required-parameter loop placed ahead of the empty-batch return
CohortEntry_validate_first(params, patient_data) ==
    IF \E k \in 1..Len(required) : required[k] \notin DOMAIN params THEN Raise("ValueError")
    ELSE IF patient_data.kind = "none" \/ DataLen(patient_data) = 0 THEN Return(ZeroResult)
    ELSE Idle

\* lines 241-262: the early exits of the handler; Idle when it goes on
CohortEntry(params, patient_data) ==
    IF patient_data.kind = "none" \/ DataLen(patient_data) = 0 THEN Return(ZeroResult)
    ELSE IF \E k \in 1..Len(required) : required[k] \notin DOMAIN params THEN Raise("ValueError")
    ELSE Idle

\* line 270 (and line 139 of run_simulation)
Scheduled(slots, overbooking_pct) ==
    PyInt(RMul(R(slots), RAdd(R(1), RDiv(overbooking_pct, R(100)))))

\* Series.clip(lower, upper)
clip(p, lower, upper) == RMin(RMax(p, lower), upper)

\* line 283
bounded_probs(preds) == [i \in 1..Len(preds) |-> clip(preds[i], Rat(1, 20), Rat(3, 5))]

\* the attendance estimate with the probabilities taken as they come
ExpectedAttending_unclipped(preds, scheduled) ==
    LET shows == [i \in 1..Len(preds) |-> FSub(FOne, Binary64(preds[i]))]
    IN  IMax(0, IMin(FRound(sum(shows)), scheduled))

\* lines 283-286
ExpectedAttending(preds, scheduled) ==
    LET shows == [i \in 1..Len(preds) |-> FSub(FOne, Binary64(bounded_probs(preds)[i]))]
    IN  IMax(0, IMin(FRound(sum(shows)), scheduled))

\* the high-risk count with a strict comparison
HighRisk_strict(preds) ==
    Cardinality({i \in 1..Len(preds) : RGt(bounded_probs(preds)[i], Rat(3, 5))})

\* line 299
HighRisk(preds) ==
    Cardinality({i \in 1..Len(preds) : RGe(bounded_probs(preds)[i], Rat(3, 5))})

\* DataFrame.sample(n): the samples of n rows out of preds, as sets of positions;
\* the rows are kept in their order, the order of a sample having no effect on
\* what the handler computes from it
Samples(preds, n) == {S \in SUBSET (1..Len(preds)) : Cardinality(S) = n}

RECURSIVE Take(_, _, _)
Take(preds, S, n) ==
    IF n = 0 THEN <<>>
    ELSE IF n \in S THEN Append(Take(preds, S, n - 1), preds[n])
    ELSE Take(preds, S, n - 1)

\* lines 273-276: the noShowProbability column of preds, and the service after the call
CohortPreds(self, patient_data, env) ==
    IF patient_data.kind = "scored"
    THEN [self EXCEPT !.ret = Return(patient_data.probs)]
    ELSE LET after == predict(self, patient_data.batch, env)
         IN  IF after.ret.kind = "return"
             THEN [after EXCEPT !.ret = Return([i \in 1..Len(after.ret.val) |->
                                                    after.ret.val[i].noShowProbability])]
             ELSE after

\* lines 292-312
CohortResult(params, local, avg_wait, utilization, overflow) ==
    LET scheduled == local.scheduled
        satisfaction == _patient_satisfaction(avg_wait, overflow, scheduled)
        overflow_rate == IF scheduled # 0 THEN Rat(overflow, scheduled) ELSE R(0)
        optimal_overbooking ==
            _recommend_overbooking(utilization, overflow_rate,
                                   params["overbookingPercentage"],
                                   params["averageAppointmentTime"])
        no_show_rate == IF scheduled # 0
                        THEN RMul(RSub(R(1), Rat(local.expected_attending, scheduled)), R(100))
                        ELSE R(0)
    IN  [totalPatients |-> Len(local.preds),
         highRiskPatients |-> HighRisk(local.preds),
         averageWaitTime |-> Round1(avg_wait),
         doctorUtilization |-> Round1(utilization),
         patientSatisfaction |-> Round1(satisfaction),
         noShowRate |-> Round1(no_show_rate),
         optimalOverbooking |-> optimal_overbooking]

\* the inputs the handler is tried on: one ordinary params mapping, the same
\* with one entry changed or missing, and batches of at most MaxCohort patients
MaxCohort == 3

BaseParams ==
    [date |-> "2016-05-02", doctors |-> 1, slotsPerDay |-> 3, overbookingPercentage |-> R(0),
     averageAppointmentTime |-> R(20), clinicHours |-> R(1)]

CohortParams ==
    {BaseParams}
    \cup {[BaseParams EXCEPT !.doctors = v] : v \in {0, 2}}
    \cup {[BaseParams EXCEPT !.slotsPerDay = v] : v \in {-1, 0, 1, 2, 10}}
    \cup {[BaseParams EXCEPT !.overbookingPercentage = v] : v \in {R(50), R(-50)}}
    \cup {[BaseParams EXCEPT !.averageAppointmentTime = v] : v \in {R(0), R(45)}}
    \cup {[BaseParams EXCEPT !.clinicHours = v] : v \in {R(0), Rat(1, 2)}}
    \cup {[k \in (DOMAIN BaseParams) \ {gone} |-> BaseParams[k]] : gone \in DOMAIN BaseParams}

CohortProbs == {Rat(1, 50), Rat(1, 10), Rat(3, 5), Rat(9, 10)}
CohortPool == {r \in RowPool : r.AppointmentID \in {101, 103, 105}}

CohortData ==
    {NoData}
    \cup {[NoData EXCEPT !.kind = "scored", !.probs = ps] :
            ps \in UNION {[1..n -> CohortProbs] : n \in 0..MaxCohort}}
    \cup {[NoData EXCEPT !.kind = "unscored", !.batch = [rows |-> rows, has_label |-> l]] :
            rows \in OrderedSubsets(CohortPool, MaxCohort), l \in BOOLEAN}

\* what is on disk when a simulation handler makes the service load its artifacts
HandlerEnvironments == {e \in Environments : e.files = {PrimaryPath}}

InitCohort ==
    /\ FeaturesIdle /\ RecoIdle /\ AlignIdle /\ PredictIdle /\ ServiceInit /\ SimIdle /\ RunIdle /\ ViewsIdle /\ FormulasIdle /\ HandlersIdle
    /\ co_params \in CohortParams
    /\ co_data \in CohortData
    /\ co_pc = "start"
    /\ co_local = NoLocals
    /\ co_ret = Idle

\* the handler ends in CohortBegin with the outcome ret
CohortStops(ret) ==
    /\ co_ret' = ret
    /\ co_pc' = "done"
    /\ UNCHANGED <<co_local, sim_vars>>

\* lines 241-287
CohortBegin ==
    /\ co_pc = "start" /\ co_ret = Idle
    /\ \E entry \in {CohortEntry(co_params, co_data)} :
          IF entry # Idle
          THEN CohortStops(entry) /\ UNCHANGED svc_vars
          ELSE \E env \in IF co_data.kind = "unscored" /\ ~_model_loaded
                          THEN HandlerEnvironments
                          ELSE {CHOOSE e \in HandlerEnvironments : TRUE} :
               \E after \in {CohortPreds(Self, co_data, env)} :
               \E scheduled \in {Scheduled(co_params["slotsPerDay"],
                                           co_params["overbookingPercentage"])} :
                  /\ model' = after.model
                  /\ scaler' = after.scaler
                  /\ feature_columns' = after.feature_columns
                  /\ _model_loaded' = after._model_loaded
                  /\ model_path' = after.model_path
                  /\ IF after.ret.kind = "raise" THEN CohortStops(after.ret)
                     \* line 279: sample refuses a negative n
                     ELSE IF Len(after.ret.val) > scheduled /\ scheduled < 0
                     THEN CohortStops(Raise("ValueError"))
                     ELSE \E S \in IF Len(after.ret.val) > scheduled
                                   THEN Samples(after.ret.val, scheduled)
                                   ELSE {1..Len(after.ret.val)} :
                          \E preds \in {Take(after.ret.val, S, Len(after.ret.val))} :
                          \E expected_attending \in {ExpectedAttending(preds, scheduled)} :
                             /\ co_local' = [scheduled |-> scheduled, preds |-> preds,
                                             expected_attending |-> expected_attending]
                             /\ sim_args' = [doctors |-> co_params["doctors"],
                                             attending |-> expected_attending,
                                             avg_time |-> co_params["averageAppointmentTime"],
                                             clinic_minutes |->
                                                 RMul(co_params["clinicHours"], R(60))]
                             /\ sim' = NotStarted
                             /\ sim_ret' = Idle
                             /\ UNCHANGED random_draws
                             /\ co_pc' = "simulate"
                             /\ co_ret' = Idle
    /\ UNCHANGED <<fb_vars, rc_args, rc_ret, pd_in, pd_ret, pd_env, co_params, co_data, ru_vars, al_df, al_ret, vw_vars, fn_vars, hd_vars>>

\* lines 292-312, once _simulate_clinic is over
CohortEnd ==
    /\ co_pc = "simulate" /\ sim_ret # Idle
    /\ co_ret' = IF sim_ret.kind = "raise" THEN sim_ret
                 ELSE Return(CohortResult(co_params, co_local, sim_ret.val.avg_wait,
                                          sim_ret.val.utilization, sim_ret.val.overflow))
    /\ co_pc' = "done"
    /\ UNCHANGED <<vw_vars, fn_vars, hd_vars, fb_vars, rc_args, rc_ret, svc_vars, pd_in, pd_ret, pd_env, sim_vars,
                   co_params, co_data, co_local, ru_vars, al_df, al_ret>>

NextCohort == CohortBegin \/ SimCall \/ SimAdmit \/ SimFinish \/ SimReturn \/ CohortEnd

SpecCohort == InitCohort /\ [][NextCohort]_vars

----------------------------------------------------------------------------
(* simulation_service.py: SimulationService.run_simulation

   The handler runs in steps: RunBegin is lines 117-181, up to the first call
   of _simulate_clinic; the simulator runs on the attendance of the day;
   RunSecond is lines 182-187, between the two calls; the simulator runs on
   the predicted attendance; RunEnd is lines 189-237.  appointment.csv and
   patient.csv are on disk and hold DailyTable and PatientPool.  The show
   rates of DailyTable are halves and quarters, which binary floating point
   holds exactly. *)

\* round(x, 3)
Round3(x) == Rat(PyRound(RMul(x, R(1000))), 1000)

\* appointment.csv, lines 17-30: date, attended, unattended
DailyTable ==
    [d \in {"2016-05-02", "2016-05-03", "2016-05-04"} |->
        CASE d = "2016-05-02" -> [attended |-> 3, unattended |-> 1]
          [] d = "2016-05-03" -> [attended |-> 0, unattended |-> 0]
          [] OTHER -> [attended |-> 1, unattended |-> 3]]

RECURSIVE DailySum(_, _)
DailySum(dates, field) ==
    IF dates = {} THEN 0
    ELSE LET d == CHOOSE x \in dates : TRUE
         IN  DailyTable[d][field] + DailySum(dates \ {d}, field)

\* lines 141-152
ShowRate(date) ==
    LET attended == IF date \in DOMAIN DailyTable THEN DailyTable[date].attended
                    ELSE DailySum(DOMAIN DailyTable, "attended")
        unattended == IF date \in DOMAIN DailyTable THEN DailyTable[date].unattended
                      ELSE DailySum(DOMAIN DailyTable, "unattended")
        denom == attended + unattended
    IN  IF denom > 0 THEN Rat(attended, denom) ELSE R(0)

\* patient.csv without its label columns, lines 33-39
PatientPool == {r \in RowPool : r.AppointmentID \in {101, 103, 104, 105}}

\* lines 157-161: the samples of n rows, in the order drawn
PoolSamples(n, replace) ==
    IF replace THEN [1..n -> PatientPool]
    ELSE {s \in OrderedSubsets(PatientPool, n) : Len(s) = n}

\* Series.median()
median(ps) ==
    LET n == Len(ps)
        rank(i) == Cardinality({j \in 1..n : RLt(ps[j], ps[i]) \/ (ps[j] = ps[i] /\ j <= i)})
        at(k) == ps[CHOOSE i \in 1..n : rank(i) = k]
    IN  IF n % 2 = 1 THEN at((n + 1) \div 2)
        ELSE RDiv(RAdd(at(n \div 2), at(n \div 2 + 1)), R(2))

\* lines 165-180: the statistics of the scored sample
PredictedStats(ps) ==
    IF Len(ps) > 0
    THEN [expected_predicted_attending |->
              FRound(sum([i \in 1..Len(ps) |-> FSub(FOne, Binary64(ps[i]))])),
          avg_p |-> RDiv(SumSeq(ps, Len(ps)), R(Len(ps))),
          med_p |-> median(ps),
          high |-> Cardinality({i \in 1..Len(ps) : RGe(ps[i], Rat(3, 5))}),
          med |-> Cardinality({i \in 1..Len(ps) : RGe(ps[i], Rat(3, 10)) /\ RLt(ps[i], Rat(3, 5))}),
          low |-> Cardinality({i \in 1..Len(ps) : RLt(ps[i], Rat(3, 10))})]
    ELSE [expected_predicted_attending |-> 0, avg_p |-> R(0), med_p |-> R(0),
          high |-> 0, med |-> 0, low |-> 0]

\* lines 189-206: one side of the comparison
Outcome(sim_out, scheduled, overbooking_pct, avg_time, no_show_rate) ==
    LET sat == _patient_satisfaction(sim_out.avg_wait, sim_out.overflow, scheduled)
        overflow_rate == IF scheduled > 0 THEN Rat(sim_out.overflow, scheduled) ELSE R(0)
    IN  [averageWaitTime |-> Round1(sim_out.avg_wait),
         doctorUtilization |-> Round1(sim_out.utilization),
         patientSatisfaction |-> Round1(sat),
         overflowPatients |-> sim_out.overflow,
         recommendedOverbooking |->
             _recommend_overbooking(sim_out.utilization, overflow_rate, overbooking_pct, avg_time),
         noShowRate |-> Round1(RMul(no_show_rate, R(100)))]

\* lines 208-237
RunResult(params, local, predicted_sim) ==
    [date |-> params["date"],
     slotsPerDay |-> params["slotsPerDay"],
     scheduledAppointments |-> local.scheduled,
     daily_show_rate |-> Round1(RMul(local.show_rate, R(100))),
     daily_no_show_rate |-> Round1(RMul(RSub(R(1), local.show_rate), R(100))),
     actual |-> Outcome(local.actual_sim, local.scheduled, params["overbookingPercentage"],
                        params["averageAppointmentTime"], RSub(R(1), local.show_rate)),
     predicted |-> Outcome(predicted_sim, local.scheduled, params["overbookingPercentage"],
                           params["averageAppointmentTime"], local.stats.avg_p),
     predictedStats |->
         [averageNoShowProbability |-> Round3(local.stats.avg_p),
          medianNoShowProbability |-> Round3(local.stats.med_p),
          highRiskCount |-> local.stats.high,
          mediumRiskCount |-> local.stats.med,
          lowRiskCount |-> local.stats.low]]

\* lines 125-131: the checks of the parameters; "" when they pass
RunValidation(params) ==
    IF \E k \in 1..Len(required) : required[k] \notin DOMAIN params THEN "ValueError"
    ELSE IF params["slotsPerDay"] <= 0 THEN "ValueError"
    ELSE ""

\* the params mappings the handler is tried on
RunParams ==
    {[BaseParams EXCEPT !.date = v] : v \in {"2016-05-02", "2016-05-03", "2016-05-09"}}
    \cup {[BaseParams EXCEPT !.doctors = v] : v \in {-1, 0, 2}}
    \cup {[BaseParams EXCEPT !.slotsPerDay = v] : v \in {-1, 0, 1, 2, 4}}
    \cup {[BaseParams EXCEPT !.overbookingPercentage = v] : v \in {R(50), R(-100), R(-200)}}
    \cup {[BaseParams EXCEPT !.averageAppointmentTime = v] : v \in {R(-20), R(0), R(45)}}
    \cup {[BaseParams EXCEPT !.clinicHours = v] : v \in {R(-1), R(0), Rat(1, 2)}}
    \cup {[k \in (DOMAIN BaseParams) \ {gone} |-> BaseParams[k]] : gone \in DOMAIN BaseParams}

InitRun ==
    /\ FeaturesIdle /\ RecoIdle /\ AlignIdle /\ PredictIdle /\ ServiceInit /\ SimIdle /\ CohortIdle /\ ViewsIdle /\ FormulasIdle /\ HandlersIdle
    /\ ru_params \in RunParams
    /\ ru_pc = "start"
    /\ ru_local = NoRunLocals
    /\ ru_ret = Idle

\* the handler ends in RunBegin with the outcome ret
RunStops(ret) ==
    /\ ru_ret' = ret
    /\ ru_pc' = "done"
    /\ UNCHANGED <<ru_local, sim_vars>>

\* lines 117-181
RunBegin ==
    /\ ru_pc = "start" /\ ru_ret = Idle
    /\ \E exc \in {RunValidation(ru_params)} :
          IF exc # "" THEN RunStops(Raise(exc)) /\ UNCHANGED svc_vars
          ELSE \E scheduled \in {Scheduled(ru_params["slotsPerDay"],
                                           ru_params["overbookingPercentage"])} :
               \* line 158: sample refuses a negative n
               IF scheduled < 0 THEN RunStops(Raise("ValueError")) /\ UNCHANGED svc_vars
               ELSE \E sampled \in PoolSamples(IMin(scheduled, Cardinality(PatientPool)),
                                               Cardinality(PatientPool) < scheduled) :
                    \E env \in IF _model_loaded THEN {CHOOSE e \in HandlerEnvironments : TRUE}
                               ELSE HandlerEnvironments :
                    \E after \in {predict(Self, [rows |-> sampled, has_label |-> FALSE], env)} :
                       /\ model' = after.model
                       /\ scaler' = after.scaler
                       /\ feature_columns' = after.feature_columns
                       /\ _model_loaded' = after._model_loaded
                       /\ model_path' = after.model_path
                       /\ IF after.ret.kind = "raise" THEN RunStops(after.ret)
                          ELSE \E show_rate \in {ShowRate(ru_params["date"])} :
                               \E actual_attending \in {PyRound(RMul(R(scheduled), show_rate))} :
                                  /\ ru_local' = [scheduled |-> scheduled, show_rate |-> show_rate,
                                                  actual_attending |-> actual_attending,
                                                  stats |-> PredictedStats(
                                                      [i \in 1..Len(after.ret.val) |->
                                                          after.ret.val[i].noShowProbability]),
                                                  actual_sim |-> NoRunLocals.actual_sim]
                                  /\ sim_args' = [doctors |-> ru_params["doctors"],
                                                  attending |-> actual_attending,
                                                  avg_time |-> ru_params["averageAppointmentTime"],
                                                  clinic_minutes |->
                                                      RMul(ru_params["clinicHours"], R(60))]
                                  /\ sim' = NotStarted
                                  /\ sim_ret' = Idle
                                  /\ UNCHANGED random_draws
                                  /\ ru_pc' = "actual"
                                  /\ ru_ret' = Idle
    /\ UNCHANGED <<fb_vars, rc_args, rc_ret, pd_in, pd_ret, pd_env, co_vars, ru_params, al_df, al_ret, vw_vars, fn_vars, hd_vars>>

\* lines 182-187: the first simulation is over, the second one is called
RunSecond ==
    /\ ru_pc = "actual" /\ sim_ret # Idle
    /\ IF sim_ret.kind = "raise"
       THEN /\ ru_ret' = sim_ret
            /\ ru_pc' = "done"
            /\ UNCHANGED <<ru_local, sim_vars>>
       ELSE /\ ru_local' = [ru_local EXCEPT !.actual_sim = sim_ret.val]
            /\ sim_args' = [sim_args EXCEPT
                               !.attending = ru_local.stats.expected_predicted_attending]
            /\ sim' = NotStarted
            /\ sim_ret' = Idle
            /\ UNCHANGED random_draws
            /\ ru_pc' = "predicted"
            /\ ru_ret' = Idle
    /\ UNCHANGED <<fb_vars, rc_args, rc_ret, svc_vars, pd_in, pd_ret, pd_env, co_vars, ru_params, al_df, al_ret, vw_vars, fn_vars, hd_vars>>

\* lines 189-237, once the second simulation is over
RunEnd ==
    /\ ru_pc = "predicted" /\ sim_ret # Idle
    /\ ru_ret' = IF sim_ret.kind = "raise" THEN sim_ret
                 ELSE Return(RunResult(ru_params, ru_local, sim_ret.val))
    /\ ru_pc' = "done"
    /\ UNCHANGED <<vw_vars, fn_vars, hd_vars, fb_vars, rc_args, rc_ret, svc_vars, pd_in, pd_ret, pd_env, sim_vars, co_vars,
                   ru_params, ru_local, al_df, al_ret>>

NextRun == RunBegin \/ SimCall \/ SimAdmit \/ SimFinish \/ SimReturn \/ RunSecond \/ RunEnd

SpecRun == InitRun /\ [][NextRun]_vars

\* either of the two handlers on one request
InitSimulation == InitCohort \/ InitRun

NextSimulation == (co_params # <<>> /\ NextCohort) \/ (ru_params # <<>> /\ NextRun)

SpecSimulation == InitSimulation /\ [][NextSimulation]_vars

----------------------------------------------------------------------------
(* C6: _simulate_clinic with attending = 0 returns average wait 0,
   utilization 0 and overflow 0 without raising, for any doctor count and any
   operating minutes.  Stated for the calls with at least one doctor, a
   positive average service time and operating minutes that are not negative,
   which the claim covers in any reading. *)
C6_NoPatientsAllZero ==
    (/\ sim_ret # Idle
     /\ sim_args.attending = 0
     /\ sim_args.doctors >= 1
     /\ RGt(sim_args.avg_time, R(0))
     /\ RGe(sim_args.clinic_minutes, R(0))) =>
        sim_ret = Return([avg_wait |-> R(0), utilization |-> R(0), overflow |-> 0])

----------------------------------------------------------------------------
(* C7: run_simulation_for_cohort called with no batch, or with a batch that
   has no rows, returns the result whose seven fields are all 0, whatever
   params holds or lacks, raises nothing, and leaves the prediction service
   as it was: the model is not loaded. *)
C7_EmptyCohortAllZero ==
    (co_pc = "done" /\ (co_data.kind = "none" \/ DataLen(co_data) = 0))
        => /\ co_ret.kind = "return"
           /\ co_ret.val.totalPatients = 0
           /\ co_ret.val.highRiskPatients = 0
           /\ co_ret.val.averageWaitTime = R(0)
           /\ co_ret.val.doctorUtilization = R(0)
           /\ co_ret.val.patientSatisfaction = R(0)
           /\ co_ret.val.noShowRate = R(0)
           /\ co_ret.val.optimalOverbooking = 0
           /\ ~_model_loaded /\ model = None
           /\ sim_args = <<>>

\* a batch without rows and params without "doctors": the all-zero result
C7_Witness ==
    /\ co_pc = "done"
    /\ co_data.kind = "unscored" /\ co_data.batch.rows = <<>>
    /\ "doctors" \notin DOMAIN co_params
    /\ co_ret = Return(ZeroResult)

(* C9: for a scored batch of n patients with n <= scheduled, the attendance
   passed to the queue simulator is round(sum over the batch of
   1 - clip(p, 0.05, 0.6)), in the floating-point arithmetic of the program,
   limited to scheduled; five patients at 0.1 and five at 0.7 with
   scheduled = 10 give 7. *)
C9_Show(p) ==
    FSub(FOne, Binary64(IF RLt(p, Rat(1, 20)) THEN Rat(1, 20)
                        ELSE IF RGt(p, Rat(3, 5)) THEN Rat(3, 5) ELSE p))

C9_Example == [i \in 1..10 |-> IF i <= 5 THEN Rat(1, 10) ELSE Rat(7, 10)]

C9_CohortAttendance ==
    /\ ExpectedAttending(C9_Example, 10) = 7
    /\ (co_pc # "start" /\ co_data.kind = "scored" /\ sim_args # <<>>
        /\ Len(co_data.probs) <= co_local.scheduled)
          => sim_args.attending =
                IMin(FRound(sum([i \in 1..Len(co_data.probs) |-> C9_Show(co_data.probs[i])])),
                     co_local.scheduled)

\* 0.9, 0.02 and 0.1 are clipped to 0.6, 0.05 and 0.1: 0.4 + 0.95 + 0.9 rounds to 2
C9_Witness ==
    /\ co_pc = "done" /\ co_ret.kind = "return"
    /\ co_data.kind = "scored"
    /\ co_data.probs = <<Rat(9, 10), Rat(1, 50), Rat(1, 10)>>
    /\ co_local.scheduled = 3
    /\ sim_args.attending = 2

(* C10: highRiskPatients is the number of patients of the batch the handler
   works on (the batch passed in, down-sampled to scheduled when larger)
   whose clipped probability is >= 0.6, which is the number whose original
   probability is >= 0.6; it never exceeds totalPatients; five patients at
   0.1 and five at 0.7 count 5. *)
C10_HighRiskCount ==
    /\ HighRisk(C9_Example) = 5
    /\ (co_pc = "done" /\ co_ret.kind = "return")
          => /\ co_ret.val.totalPatients = Len(co_local.preds)
             /\ co_ret.val.highRiskPatients =
                   Cardinality({i \in 1..Len(co_local.preds) :
                                   RGe(RMin(RMax(co_local.preds[i], Rat(1, 20)), Rat(3, 5)), Rat(3, 5))})
             /\ co_ret.val.highRiskPatients =
                   Cardinality({i \in 1..Len(co_local.preds) : RGe(co_local.preds[i], Rat(3, 5))})
             /\ co_ret.val.highRiskPatients <= co_ret.val.totalPatients
             /\ co_data.kind = "scored" =>
                   \E S \in SUBSET (1..Len(co_data.probs)) :
                       /\ Cardinality(S) = IMin(Len(co_data.probs), co_local.scheduled)
                       /\ co_local.preds = Take(co_data.probs, S, Len(co_data.probs))

\* three patients down-sampled to two, one of them at exactly 0.6
C10_Witness ==
    /\ co_pc = "done" /\ co_ret.kind = "return"
    /\ co_data.kind = "scored"
    /\ co_data.probs = <<Rat(3, 5), Rat(1, 10), Rat(9, 10)>>
    /\ co_local.preds = <<Rat(3, 5), Rat(1, 10)>>
    /\ co_ret.val.totalPatients = 2
    /\ co_ret.val.highRiskPatients = 1

(* C8: run_simulation given all its parameters, one of doctors, slotsPerDay,
   averageAppointmentTime and clinicHours being <= 0, ends with a
   ValueError, the error of its parameter checks, and returns no result.
   Calls that the prediction service ended (artifacts missing, a sample that
   cannot be scored) are left aside: the statement is about the calls that
   the parameter checks stopped or that went on to the simulation. *)
C8_NonPositiveParamsRejected ==
    (/\ ru_pc = "done"
     /\ \A k \in 1..Len(required) : required[k] \in DOMAIN ru_params
     /\ \/ ru_params["doctors"] <= 0
        \/ ru_params["slotsPerDay"] <= 0
        \/ RLe(ru_params["averageAppointmentTime"], R(0))
        \/ RLe(ru_params["clinicHours"], R(0))
     /\ (RunValidation(ru_params) # "" \/ sim_args # <<>>))
        => ru_ret = Raise("ValueError")

----------------------------------------------------------------------------
(* C11: a row that is its patient's first appointment of the batch in
   (PatientId, ScheduledDay) order, rows scheduled at the same time taken in
   the order of the batch, gets Past_NoShow_Rate = 0, Missed_Before = 0 and
   Days_Since_Last_Appt = 0 from the feature builder, whatever its own
   outcome label is. *)
C11_Before(B, j, i) ==
    /\ B.rows[j].PatientId = B.rows[i].PatientId
    /\ \/ B.rows[j].ScheduledDay < B.rows[i].ScheduledDay
       \/ B.rows[j].ScheduledDay = B.rows[i].ScheduledDay /\ j < i

C11_FirstRowsAreBlank(B, T) ==
    \A k \in 1..Len(T.index) :
        (\A j \in 1..Len(B.rows) : ~C11_Before(B, j, T.index[k] + 1))
            => /\ T.data[k]["Past_NoShow_Rate"] = R(0)
               /\ T.data[k]["Missed_Before"] = R(0)
               /\ T.data[k]["Days_Since_Last_Appt"] = R(0)

C11_FirstAppointmentHasNoHistory ==
    fb_ret.kind = "return" =>
        /\ C11_FirstRowsAreBlank(fb_a, fb_ret.val.a)
        /\ C11_FirstRowsAreBlank(fb_b, fb_ret.val.b)

\* a labelled batch passed latest first: the first appointment is a no-show and
\* has no history, the second one has a past rate of 1
C11_Witness ==
    /\ fb_ret.kind = "return"
    /\ fb_a.has_label
    /\ Len(fb_a.rows) = 2
    /\ fb_a.rows[1].AppointmentID = 102 /\ fb_a.rows[2].AppointmentID = 101
    /\ fb_a.rows[2].NoShow = "Yes"
    /\ fb_ret.val.a.index = <<1, 0>>
    /\ fb_ret.val.a.data[1]["Past_NoShow_Rate"] = R(0)
    /\ fb_ret.val.a.data[2]["Past_NoShow_Rate"] = R(1)

----------------------------------------------------------------------------
(* C12: no look-ahead.  When two batches hold the same appointment and agree
   on the rows of its patient that come strictly before it in (PatientId,
   ScheduledDay) order, the appointment's Past_NoShow_Rate and Missed_Before
   are the same in both tables: the outcome label of the appointment itself or
   of a later one, and added later appointments, do not change them. *)
C12_History(B, i, r) == {j \in 1..Len(B.rows) : C11_Before(B, j, i) /\ B.rows[j] = r}

C12_SameHistory(A, i, B, j) ==
    \A r \in {A.rows[n] : n \in 1..Len(A.rows)} \cup {B.rows[n] : n \in 1..Len(B.rows)} :
        Cardinality(C12_History(A, i, r)) = Cardinality(C12_History(B, j, r))

C12_SameAppointment(x, y) ==
    /\ x.AppointmentID = y.AppointmentID
    /\ x.PatientId = y.PatientId
    /\ x.ScheduledDay = y.ScheduledDay

C12_NoLookAhead ==
    fb_ret.kind = "return" =>
        \A k \in 1..Len(fb_ret.val.a.index), l \in 1..Len(fb_ret.val.b.index) :
            LET i == fb_ret.val.a.index[k] + 1
                j == fb_ret.val.b.index[l] + 1
            IN  C12_SameAppointment(fb_a.rows[i], fb_b.rows[j]) /\ C12_SameHistory(fb_a, i, fb_b, j)
                    => /\ fb_ret.val.a.data[k]["Past_NoShow_Rate"] = fb_ret.val.b.data[l]["Past_NoShow_Rate"]
                       /\ fb_ret.val.a.data[k]["Missed_Before"] = fb_ret.val.b.data[l]["Missed_Before"]

\* appointment 102 follows the no-show 101; in the second batch its own label is
\* changed and the later appointment 106 of the same patient is added: both tables
\* give it a past rate of 1
C12_Witness ==
    /\ fb_ret.kind = "return"
    /\ fb_a.has_label
    /\ Len(fb_a.rows) = 2 /\ Len(fb_b.rows) = 3
    /\ fb_a.rows[1].AppointmentID = 101 /\ fb_a.rows[2].AppointmentID = 102
    /\ fb_b.rows[1] = fb_a.rows[1]
    /\ fb_b.rows[2] = Relabel(fb_a.rows[2])
    /\ fb_b.rows[3].AppointmentID = 106
    /\ fb_ret.val.a.data[2]["Past_NoShow_Rate"] = R(1)
    /\ fb_ret.val.b.data[2]["Past_NoShow_Rate"] = R(1)
    /\ fb_ret.val.b.data[2]["Missed_Before"] = R(1)

----------------------------------------------------------------------------
(* C13: when the call to predict that loads the artifacts cannot load the
   model, it returns no assessments and raises: FileNotFoundError when there
   is no file at the service's model path nor at the alternative path, a
   RuntimeError when the file found cannot be unpickled (version mismatch or
   otherwise incompatible); the service is left not loaded: model is None and
   _model_loaded is False. *)
C13_NotFound(env) == model_path \notin env.files /\ AltPath \notin env.files

C13_Unreadable(env) == ~C13_NotFound(env) /\ env.content \in {"mismatch", "incompatible"}

C13_LoadFailureIsReported ==
    pd_env # None /\ pd_ret # Idle =>
        LET env == pd_env[1]
        IN  /\ C13_NotFound(env) => pd_ret = Raise("FileNotFoundError")
            /\ C13_Unreadable(env) =>
                  /\ pd_ret.kind = "raise"
                  /\ pd_ret.exc \in {"RuntimeError: Model version mismatch",
                                     "RuntimeError: Error loading model"}
            /\ C13_NotFound(env) \/ C13_Unreadable(env) => model = None /\ ~_model_loaded

\* a batch of two rows, the artifact under the alternative name only, pickled by
\* another scikit-learn version
C13_Witness ==
    /\ pd_env # None
    /\ pd_env[1].files = {AltPath} /\ pd_env[1].content = "mismatch"
    /\ Len(pd_in.rows) = 2
    /\ pd_ret = Raise("RuntimeError: Model version mismatch")
    /\ model = None /\ ~_model_loaded /\ model_path = AltPath

----------------------------------------------------------------------------
(* C14: degraded mode.  When the call that loads the artifacts gets the model
   but cannot prepare the standardizer (the training file is absent, or
   loading or fitting it raises), the aligner leaves the feature table as it
   is and predict returns assessments for every batch that a service with a
   prepared standardizer scores; and in every state the scaler is present
   exactly when the list of training columns is. *)
C14_Degraded(env) == ~C13_NotFound(env) /\ env.content = "ok" /\ env.training # "ok"

C14_DegradedModeStillScores ==
    /\ scaler = None <=> feature_columns = None
    /\ pd_env # None /\ pd_ret # Idle /\ C14_Degraded(pd_env[1]) =>
          /\ _align_features(feature_columns, _preprocess_patient_data(pd_in))
                = _preprocess_patient_data(pd_in)
          /\ \/ pd_ret.kind = "return"
             \/ Score(Some("fitted"), Some(TrainingColumns), pd_in).kind = "raise"

----------------------------------------------------------------------------
(* views.py: upload_csv, get_dashboard_metrics and clear_data over the session.
   An uploaded file is absent from the request, unreadable as CSV, without one
   of the required columns, or a table of rows (possibly none). *)

Response(view, status, body) == [view |-> view, status |-> status, body |-> body]

MaxUpload == 3
UploadLimit == 100

Uploads ==
    {[kind |-> "none"], [kind |-> "unreadable"], [kind |-> "missing_columns"]}
        \cup {[kind |-> "table", rows |-> rows] :
                rows \in UNION {[1..n -> PatientPool] : n \in 0..MaxUpload}}

\* CSVService.validate_csv: "" when the file is valid, the message otherwise
validate_csv(file) ==
    CASE file.kind = "unreadable" -> "Error reading CSV"
      [] file.kind = "missing_columns" -> "Missing required columns"
      [] file.kind = "table" /\ Len(file.rows) = 0 -> "CSV file is empty"
      [] OTHER -> ""

\* CSVService.process_csv: the rows read, down-sampled to limit rows when there are more
process_csv(file, limit) ==
    IF Len(file.rows) > limit
    THEN {Take(file.rows, S, Len(file.rows)) : S \in Samples(file.rows, limit)}
    ELSE {file.rows}

\* the record get_dashboard_metrics answers with when the session holds no patient data
ZeroMetrics ==
    [totalPatients |-> 0, highRiskPatients |-> 0, averageWaitTime |-> 0,
     doctorUtilization |-> 0, patientSatisfaction |-> 0, noShowRate |-> 0,
     optimalOverbooking |-> 0]

InitViews ==
    /\ FeaturesIdle /\ RecoIdle /\ AlignIdle /\ PredictIdle /\ ServiceInit /\ SimIdle /\ CohortIdle /\ RunIdle /\ FormulasIdle /\ HandlersIdle
    /\ session = None
    /\ vw_resp = Idle

upload_csv ==
    /\ \E file \in Uploads :
          IF file.kind = "none"
          THEN /\ vw_resp' = Response("upload_csv", 400, [success |-> FALSE, message |-> "No file provided"])
               /\ UNCHANGED session
          ELSE \E error_message \in {validate_csv(file)} :
               IF error_message # ""
               THEN /\ vw_resp' = Response("upload_csv", 400, [success |-> FALSE, message |-> error_message])
                    /\ UNCHANGED session
               ELSE \E df \in process_csv(file, UploadLimit) :
                       /\ session' = Some(df)
                       /\ vw_resp' = Response("upload_csv", 200,
                                        [success |-> TRUE, processedRecords |-> Len(df)])
    /\ UNCHANGED <<fb_vars, rc_args, rc_ret, svc_vars, pd_in, pd_ret, pd_env, sim_vars, co_vars, ru_vars, al_df, al_ret, fn_vars, hd_vars>>

get_dashboard_metrics ==
    /\ IF session # None
       \* line 174: SimulationService has no attribute calculate_metrics; the AttributeError
       \* is caught at line 189 and answered with an error
       THEN vw_resp' = Response("get_dashboard_metrics", 500,
                           [error |-> "Error calculating metrics: AttributeError"])
       ELSE vw_resp' = Response("get_dashboard_metrics", 200, ZeroMetrics)
    /\ UNCHANGED session
    /\ UNCHANGED <<fb_vars, rc_args, rc_ret, svc_vars, pd_in, pd_ret, pd_env, sim_vars, co_vars, ru_vars, al_df, al_ret, fn_vars, hd_vars>>

clear_data ==
    /\ session' = None
    /\ vw_resp' = Response("clear_data", 200, [success |-> TRUE])
    /\ UNCHANGED <<fb_vars, rc_args, rc_ret, svc_vars, pd_in, pd_ret, pd_env, sim_vars, co_vars, ru_vars, al_df, al_ret, fn_vars, hd_vars>>

NextViews == upload_csv \/ get_dashboard_metrics \/ clear_data

SpecViews == InitViews /\ [][NextViews]_vars

----------------------------------------------------------------------------
(* C15: get_dashboard_metrics answers with status 200 and a record of the seven
   metrics, both when an upload has stored patient data in the session and
   when the session holds none (never uploaded, or cleared); in the latter
   case every metric is 0. *)
C15_DashboardAnswersWithMetrics ==
    vw_resp # Idle /\ vw_resp.view = "get_dashboard_metrics" =>
        /\ vw_resp.status = 200
        /\ DOMAIN vw_resp.body = DOMAIN ZeroMetrics
        /\ session = None => vw_resp.body = ZeroMetrics

----------------------------------------------------------------------------
(* C16: in a run of _simulate_clinic with attending = n > 0 the patients arrive
   spread evenly over the operating window: the k-th patient (k = 0..n-1)
   enters the queue at time k * (clinic_minutes / n). *)
C16_ArrivalsSpreadEvenly ==
    sim.running =>
        \A k \in 1..Len(sim.arrival) :
            sim.arrival[k] = RMul(R(k - 1), RDiv(sim_args.clinic_minutes, R(sim_args.attending)))

----------------------------------------------------------------------------
(* C17: in every state of a run the patients in service are at most as many
   as the doctors, and a patient waits only while every doctor is busy: the
   clock advances, and the run ends, only when the queue is empty or no doctor
   is free. *)
C17_NoIdleDoctor(st) == st.waiting # <<>> => Cardinality(st.in_service) = sim_args.doctors

C17_DoctorsBoundServiceAndQueue ==
    /\ [](sim.running => Cardinality(sim.in_service) <= sim_args.doctors)
    /\ [][sim.running /\ (sim'.now # sim.now \/ sim_ret' # sim_ret) /\ sim_ret'.kind # "raise"
            => C17_NoIdleDoctor(sim)]_vars

\* two doctors, four patients: at time 16 one service has ended and been followed by
\* the third patient's, the fourth patient waits while both doctors are busy
C17_Witness ==
    /\ sim.running /\ sim_args.doctors = 2 /\ sim_args.attending = 4
    /\ sim.now = R(16)
    /\ sim.waiting = <<4>>
    /\ Cardinality(sim.in_service) = 2

----------------------------------------------------------------------------
(* C18: patients are given a doctor in the order they arrived (those arriving
   together in the order they asked), and an admitted patient holds its doctor
   without interruption for exactly the service time drawn at admission, which
   lies between 0.8 and 1.2 times avg_time: its service is taken away only at
   the time it was due to end. *)
C18_Earlier(st, k, j) ==
    RLt(st.arrival[k], st.arrival[j]) \/ (st.arrival[k] = st.arrival[j] /\ k <= j)

C18_Admitted(st, u) ==
    /\ \A j \in Range(st.waiting) : C18_Earlier(st, u.patient, j)
    /\ RGe(RSub(u.until, st.now), RMul(Rat(4, 5), sim_args.avg_time))
    /\ RLe(RSub(u.until, st.now), RMul(Rat(6, 5), sim_args.avg_time))

C18_FifoAndUninterruptedService ==
    [][sim.running /\ sim'.running =>
          /\ \A u \in sim'.in_service \ sim.in_service :
                u.patient \in Range(sim.waiting) /\ C18_Admitted(sim, u)
          /\ \A u \in sim.in_service \ sim'.in_service : sim'.now = u.until
          /\ \A u \in sim'.in_service : RLe(sim'.now, u.until)]_vars

\* one doctor: patients 1 and 2 have been served one after the other, for 16 and 24
\* minutes, patient 3 is in service since 40 and due to end past the horizon
C18_Witness ==
    /\ sim.running /\ sim_args.doctors = 1 /\ sim_args.attending = 4
    /\ sim_args.avg_time = R(20) /\ sim_args.clinic_minutes = R(60)
    /\ sim.wait_times = <<R(0), R(16), R(40)>>
    /\ sim.in_service = {[patient |-> 3, until |-> R(64)]}
    /\ sim.waiting = <<4>>

----------------------------------------------------------------------------
(* C19: the utilization returned is min(100, 100 * B / (doctors *
   clinic_minutes)), B being the sum of the service times drawn for the
   patients admitted, each counted in full at its admission even when the
   service runs past the horizon; patients are admitted before the horizon
   only, and those never admitted add nothing.  The utilization is therefore
   between 0 and 100. *)
C19_Utilization(B) ==
    RMin(R(100), RDiv(RMul(R(100), B), RMul(R(sim_args.doctors), sim_args.clinic_minutes)))

C19_UtilizationCountsFullServices ==
    /\ [][~sim.running /\ sim'.running => sim'.busy_time = R(0)]_vars
    /\ [][sim.running /\ sim'.running =>
            /\ \A u \in sim'.in_service \ sim.in_service :
                  /\ RLt(sim.now, sim_args.clinic_minutes)
                  /\ sim'.busy_time = RAdd(sim.busy_time, RSub(u.until, sim.now))
            /\ sim'.in_service \subseteq sim.in_service => sim'.busy_time = sim.busy_time]_vars
    /\ [](sim_ret.kind = "return" =>
            /\ sim_ret.val.utilization = C19_Utilization(sim.busy_time)
            /\ RGe(sim_ret.val.utilization, R(0))
            /\ RLe(sim_ret.val.utilization, R(100)))

\* two doctors, 30 minutes, one patient whose service of 36 minutes runs past the
\* horizon: the utilization is 100 * 36 / 60
C19_Witness ==
    /\ sim_ret.kind = "return"
    /\ sim_args.doctors = 2 /\ sim_args.attending = 1 /\ sim_args.clinic_minutes = R(30)
    /\ sim.in_service = {[patient |-> 1, until |-> R(36)]}
    /\ sim.busy_time = R(36)
    /\ sim_ret.val.utilization = R(60)

----------------------------------------------------------------------------
(* C20: the average wait returned is the mean of admission time minus arrival
   time over the patients given a doctor, all of them strictly before the
   horizon; a patient still queued at the end adds nothing, every wait counted
   is at least 0 and less than clinic_minutes, and the average is 0 when
   nobody was admitted. *)
C20_Mean(ws) == IF ws = <<>> THEN R(0) ELSE RDiv(SumSeq(ws, Len(ws)), R(Len(ws)))

C20_AverageWaitOverAdmitted ==
    /\ [][~sim.running /\ sim'.running => sim'.wait_times = <<>>]_vars
    /\ [][sim.running /\ sim'.running =>
            /\ \A u \in sim'.in_service \ sim.in_service :
                  /\ RLt(sim.now, sim_args.clinic_minutes)
                  /\ sim'.wait_times = Append(sim.wait_times, RSub(sim.now, sim.arrival[u.patient]))
            /\ sim'.in_service \subseteq sim.in_service => sim'.wait_times = sim.wait_times]_vars
    /\ [](sim_ret.kind = "return" =>
            /\ sim_ret.val.avg_wait = C20_Mean(sim.wait_times)
            /\ Len(sim.wait_times) + Len(sim.waiting) = sim_args.attending
            /\ \A i \in 1..Len(sim.wait_times) :
                  RGe(sim.wait_times[i], R(0)) /\ RLt(sim.wait_times[i], sim_args.clinic_minutes))

\* one doctor, 60 minutes, four patients: three are admitted, at 0, 16 and 40, the
\* fourth is still queued at the horizon; the average wait is 56 / 3
C20_Witness ==
    /\ sim_ret.kind = "return"
    /\ sim_args.doctors = 1 /\ sim_args.attending = 4 /\ sim_args.clinic_minutes = R(60)
    /\ sim.wait_times = <<R(0), R(16), R(40)>>
    /\ sim.waiting = <<4>>
    /\ sim_ret.val.avg_wait = Rat(56, 3)

----------------------------------------------------------------------------
(* C21: for positive arguments the overflow returned by _simulate_clinic is
   max(0, attending - floor(doctors * clinic_minutes / avg_time)), a function
   of the arguments alone, and never more than attending. *)
C21_OverflowIsCapacityShortfall ==
    fn_ret.kind = "return" =>
        /\ fn_ret.val = IMax(0, fn_args.attending
                                - PyInt(RDiv(RMul(R(fn_args.doctors), fn_args.clinic_minutes),
                                             fn_args.avg_time)))
        /\ fn_ret.val <= fn_args.attending

----------------------------------------------------------------------------
(* C22: the two simulator runs of run_simulation share no mutable state, the
   stream of random numbers included: the generator the predicted-attendance
   run draws its service times from has been advanced by that run alone, never
   by the actual-attendance run. *)
C22_RunsShareNoState ==
    ru_pc = "predicted" /\ sim_ret.kind # "raise" => random_draws = Len(sim.wait_times)

----------------------------------------------------------------------------
(* C23: _patient_satisfaction(avg_wait, overflow, scheduled) is
   100 - min(40, (avg_wait / 30) * 40) - min(60, (overflow / scheduled) * 60)
   for avg_wait >= 0, overflow >= 0 and scheduled > 0, overflow > scheduled
   included, and 100 - min(40, (avg_wait / 30) * 40) when scheduled = 0. *)
C23_SatisfactionFormula ==
    fn_ret.kind = "return" =>
        LET wait_penalty == RMin(R(40), RMul(RDiv(fn_args.avg_wait, R(30)), R(40)))
            overflow_penalty == IF fn_args.scheduled = 0 THEN R(0)
                                ELSE RMin(R(60), RMul(Rat(fn_args.overflow, fn_args.scheduled), R(60)))
        IN  fn_ret.val = RSub(RSub(R(100), wait_penalty), overflow_penalty)

\* C24: on a batch whose labels are all 'Yes' or 'No', _preprocess_patient_data
\* yields, row for row, the feature columns and the values that load_and_clean_data
\* yields before its split, the label column apart.
C24_TrainingInferenceParity ==
    (/\ fb_ret.kind = "return" /\ fb_a.has_label
     /\ \A i \in 1..Len(fb_a.rows) : fb_a.rows[i].NoShow \in {"Yes", "No"}) =>
        /\ fb_ret.val.X # None
        /\ fb_ret.val.a.columns = fb_ret.val.X[1].columns
        /\ fb_ret.val.a.index = fb_ret.val.X[1].index
        /\ fb_ret.val.a.data = fb_ret.val.X[1].data

\* a labelled batch that is out of order, loses a record to the age filter and has a
\* patient with an earlier no-show
C24_Witness ==
    /\ fb_ret.kind = "return" /\ fb_a.has_label
    /\ Len(fb_a.rows) = MaxBatch
    /\ fb_ret.val.X # None
    /\ Len(fb_ret.val.X[1].data) = MaxBatch - 1
    /\ fb_ret.val.X[1].index[1] > fb_ret.val.X[1].index[2]
    /\ fb_ret.val.X[1].data[2]["Missed_Before"] = R(1)
    /\ fb_ret.val.a = fb_ret.val.X[1]

\* C25: when the requests are served one after the other, get_prediction_service
\* returns the same instance every time, the classifier is loaded and the
\* standardizer fitted at most once, and once an instance has _model_loaded set no
\* step loads anything or changes its model, scaler or feature_columns.
C25_OneInstance ==
    /\ Len(heap) <= 1
    /\ \A t \in Threads : th[t].svc \in {None, Some(1)}
    /\ _prediction_service \in {None, Some(1)}

C25_NoLoadOnceLoaded ==
    \A i \in 1..Len(heap) :
        heap[i]._model_loaded =>
            /\ heap'[i] = heap[i]
            /\ joblib_loads' = joblib_loads /\ scaler_fits' = scaler_fits

C25_LoadOnce ==
    /\ [](C25_OneInstance /\ joblib_loads <= 1 /\ scaler_fits <= 1)
    /\ [][C25_NoLoadOnceLoaded]_vars

\* a request failed to load the classifier, a later one loaded it and fitted the
\* standardizer, and a request after that was scored by the same instance
C25_Witness ==
    /\ th[2].pc = "done" /\ th[2].ret = Raise("FileNotFoundError")
    /\ th[1].pc = "done" /\ th[1].calls = MaxCalls /\ th[1].ret.kind = "return"
    /\ th[1].svc = th[2].svc
    /\ joblib_loads = 1 /\ scaler_fits = 1
    /\ heap[1]._model_loaded /\ heap[1].scaler = Some("fitted")

\* C29: while each of the two threads serves its first request of the process, under
\* every interleaving, the two obtain the same instance, the classifier is loaded and
\* the standardizer fitted at most once, and a thread about to score finds the
\* model present and the scaler either absent with no columns or fitted with its columns.
C29_SameInstance ==
    \A t, u \in Threads : th[t].svc # None /\ th[u].svc # None => th[t].svc = th[u].svc

C29_FullyInitialised(self) ==
    /\ self.model # None
    /\ self.scaler # Some("unfitted")
    /\ (self.scaler = None) = (self.feature_columns = None)

C29_ConcurrentHandlersSafe ==
    (\A t \in Threads : th[t].calls <= 1) =>
        /\ C29_SameInstance
        /\ joblib_loads <= 1 /\ scaler_fits <= 1
        /\ \A t \in Threads : th[t].pc = "score" => C29_FullyInitialised(heap[th[t].svc[1]])

\* C26: on every row of the feature table, Missed_Before is 1 exactly when the
\* batch has the outcome label and an appointment of the same patient that is
\* strictly earlier in (PatientId, ScheduledDay) order, rows scheduled at the same
\* time taken in the order of the batch, is a no-show, and 0 otherwise; on a batch
\* without the label Missed_Before and Past_NoShow_Rate are 0 on every row.
C26_EarlierNoShow(B, i) ==
    \E j \in 1..Len(B.rows) :
        /\ B.rows[j].Age >= 0
        /\ B.rows[j].PatientId = B.rows[i].PatientId
        /\ \/ B.rows[j].ScheduledDay < B.rows[i].ScheduledDay
           \/ B.rows[j].ScheduledDay = B.rows[i].ScheduledDay /\ j < i
        /\ B.rows[j].NoShow = "Yes"

C26_Table(B, T) ==
    \A k \in 1..Len(T.index) :
        /\ T.data[k]["Missed_Before"] =
              IF B.has_label /\ C26_EarlierNoShow(B, T.index[k] + 1) THEN R(1) ELSE R(0)
        /\ ~B.has_label => T.data[k]["Past_NoShow_Rate"] = R(0)

C26_MissedBeforeIsEarlierNoShow ==
    fb_ret.kind = "return" =>
        /\ C26_Table(fb_a, fb_ret.val.a)
        /\ C26_Table(fb_b, fb_ret.val.b)

\* three appointments of one patient, passed latest first: no-show, attended, no-show
C26_Witness ==
    /\ fb_ret.kind = "return" /\ fb_a.has_label
    /\ Len(fb_a.rows) = 3
    /\ fb_ret.val.a.index = <<2, 1, 0>>
    /\ fb_a.rows[3].NoShow = "Yes" /\ fb_a.rows[2].NoShow = "No" /\ fb_a.rows[1].NoShow = "Yes"
    /\ fb_ret.val.a.data[1]["Missed_Before"] = R(0)
    /\ fb_ret.val.a.data[2]["Missed_Before"] = R(1)
    /\ fb_ret.val.a.data[3]["Missed_Before"] = R(1)
    /\ fb_ret.val.a.data[3]["Past_NoShow_Rate"] = Rat(1, 2)

\* C27: when every required parameter is present, the doctor count, the slots per
\* day, the appointment length and the clinic hours are positive and the
\* overbooking percentage is not negative, every patientSatisfaction that
\* run_simulation (actual and predicted) and run_simulation_for_cohort return is
\* between 0 and 100, whatever the service times drawn.
C27_Valid(params) ==
    /\ \A k \in 1..Len(required) : required[k] \in DOMAIN params
    /\ params["doctors"] > 0 /\ params["slotsPerDay"] > 0
    /\ RGe(params["overbookingPercentage"], R(0))
    /\ RGt(params["averageAppointmentTime"], R(0)) /\ RGt(params["clinicHours"], R(0))

C27_InRange(x) == RGe(x, R(0)) /\ RLe(x, R(100))

C27_SatisfactionInRange ==
    /\ ru_ret.kind = "return" /\ C27_Valid(ru_params) =>
           /\ C27_InRange(ru_ret.val.actual.patientSatisfaction)
           /\ C27_InRange(ru_ret.val.predicted.patientSatisfaction)
    /\ co_ret.kind = "return" /\ C27_Valid(co_params) =>
           C27_InRange(co_ret.val.patientSatisfaction)

\* a day on which the predicted attendance is above the capacity and the waits are long
C27_Witness ==
    /\ ru_ret.kind = "return" /\ C27_Valid(ru_params)
    /\ ru_ret.val.predicted.overflowPatients > 0
    /\ RGt(ru_ret.val.predicted.averageWaitTime, R(0))
    /\ RLt(ru_ret.val.predicted.patientSatisfaction, R(50))

\* C28: for a current percentage between 0 and 30, with any utilization,
\* appointment length and overflow rate (a share of the scheduled patients, never
\* negative), _recommend_overbooking returns an integer between 0 and 30; the
\* result is above the current percentage only when the utilization is below 70
\* and the overflow rate is 0, and then by 5 at most.
C28_RecommendationInRange ==
    (/\ rc_ret.kind = "return"
     /\ RGe(rc_args[3], R(0)) /\ RLe(rc_args[3], R(30))) =>
        /\ rc_ret.val \in 0..30
        /\ RGt(R(rc_ret.val), rc_args[3]) =>
               /\ RLt(rc_args[1], R(70)) /\ rc_args[2] = R(0)
               /\ RLe(RSub(R(rc_ret.val), rc_args[3]), R(5))

\* a current percentage of 25.5 with a low utilization and no overflow: the raise stops at 30
C28_Witness ==
    /\ rc_ret = Return(30)
    /\ rc_args[3] = Rat(51, 2)
    /\ RLt(rc_args[1], R(70)) /\ rc_args[2] = R(0)

====
